---- MODULE Spec2Model ----
(***************************************************************************)
(* Model of the chutor analysis server: the content-addressed summary      *)
(* cache (server/src/analysis.ts, class SummaryCache and LruMemory), the   *)
(* dataset key (SummaryCache.computeKeyFromDataset), the /api/analyze      *)
(* route and analyzeWithParallelWorkers of server/src/index.ts, the worker *)
(* thread, and the move classifiers (analyzeGames of the server, with its  *)
(* bootstrap engine, and of the client).                                   *)
(***************************************************************************)
EXTENDS Integers, Sequences, FiniteSets, TLC

VARIABLES
    dataset,    \* first input of computeKeyFromDataset: [games, options]
    variant,    \* second input, derived from the first: [games, options, how]
    keys,       \* the keys computed for the two inputs: [a, b]
    cfg,        \* CacheConfig: [maxMemoryItems, maxDiskBytes]
    memory,     \* LruMemory.map, in insertion order: <<[key, value]>>
    index,      \* SummaryCache.index, in property order: <<CacheEntryIndex>>
    versionMap, \* SummaryCache.versionMap: key -> version
    dataFile,   \* data.ndjson.gz: the appended gzip members, in file order
    indexFile,  \* index.json: [index, diskSize]
    clock,      \* Date.now()
    ret,        \* the last cache call and what it returned
    evicted,    \* the index entries the last save evicted, in loop order
    hist,       \* every save so far: <<[key, summary, createdAt, version]>>
    reqs,       \* the /api/analyze requests in flight
    batch,      \* input of an analysis: [games, options, cpus]
    workers,    \* the workers of the batch, one per chunk
    replies,    \* the workers that replied, in the order of their replies
    out         \* what the analyses returned

keyVars == <<dataset, variant, keys>>

cacheVars == <<cfg, memory, index, versionMap, dataFile, indexFile, clock,
               ret, evicted, hist>>

batchVars == <<batch, workers, replies, out>>

vars == <<dataset, variant, keys, cfg, memory, index, versionMap, dataFile,
          indexFile, clock, ret, evicted, hist, reqs, batch, workers, replies,
          out>>

(***************************************************************************)
(* Bounds of the model.                                                    *)
(***************************************************************************)
MaxGames == 2       \* longest game list given to computeKeyFromDataset
MaxSaves == 2       \* saves of one run (length of the data log)
MaxClock == 2       \* latest value of Date.now() (the first is 0)
MaxMoves == 3       \* most analyzed moves of a classified game
MaxSplit == 5       \* longest game list split into chunks
MaxCpus == 4        \* most CPUs of the machine, the case of 16 apart

(***************************************************************************)
(* Generic helpers.                                                        *)
(***************************************************************************)
SeqsUpTo(S, n) == UNION {[1..m -> S] : m \in 0..n}

\* Number of positions of s that hold x.
CountIn(s, x) == Cardinality({i \in DOMAIN s : s[i] = x})

SameBag(s, t) ==
    /\ Len(s) = Len(t)
    /\ \A i \in DOMAIN s : CountIn(s, s[i]) = CountIn(t, s[i])

(***************************************************************************)
(* The dataset key.                                                        *)
(* A game record as the key function reads it: g.id, g.opening.name and    *)
(* g.analysis, each of which may be missing.                               *)
(***************************************************************************)
Undefined == "<undefined>"      \* a missing (undefined or null) field

RawIds == {Undefined, "", "a"}
RawOpenings == {Undefined, "Unknown", "X"}
\* g.analysis: not an array, or an array of the given length
RawAnalyses == {[isArray |-> FALSE, length |-> 0],
                [isArray |-> TRUE, length |-> 1]}
RawUsers == {Undefined, "", "a", "b"}
RawBootstraps == {Undefined, "X"}

Games == [id : RawIds, opening : RawOpenings, analysis : RawAnalyses]
Options == [onlyForUsername : RawUsers, bootstrapOpening : RawBootstraps]

\* x ?? d
Coalesce(x, d) == IF x = Undefined THEN d ELSE x

\* x || ''  (undefined and the empty string are falsy)
OrEmpty(x) == IF x = Undefined \/ x = "" THEN "" ELSE x

\* Array.isArray(g?.analysis) ? g.analysis.length : 0
AnalysisLength(g) == IF g.analysis.isArray THEN g.analysis.length ELSE 0

\* [String(g?.id ?? ''), String(g?.opening?.name ?? 'Unknown'), analysis length]
GameTuple(g) ==
    [id |-> Coalesce(g.id, ""), name |-> Coalesce(g.opening, "Unknown"),
     n |-> AnalysisLength(g)]

\* a.localeCompare(b) < 0 on the ids of the model: "" sorts before "a".
IdRank(id) == CASE id = "" -> 0 [] id = "a" -> 1

LocaleCompareLess(x, y) == IdRank(x) < IdRank(y)

\* Array.prototype.sort with the comparator on element 0 only; the sort is
\* stable, so tuples with equal ids keep their input order.
RECURSIVE InsertById(_, _)
InsertById(sorted, t) ==
    IF sorted = <<>> THEN <<t>>
    ELSE IF LocaleCompareLess(t.id, Head(sorted).id)
         THEN <<t>> \o sorted
         ELSE <<Head(sorted)>> \o InsertById(Tail(sorted), t)

RECURSIVE SortById(_)
SortById(arr) ==
    IF arr = <<>> THEN <<>>
    ELSE InsertById(SortById(SubSeq(arr, 1, Len(arr) - 1)), arr[Len(arr)])

\* JSON.stringify, as the sequence of tokens of the text.
NumStr(n) == <<"0", "1", "2", "3", "4", "5", "6", "7", "8", "9">>[n + 1]

JsonString(s) == <<"\"", s, "\"">>

JsonTuple(t) ==
    <<"[">> \o JsonString(t.id) \o <<",">> \o JsonString(t.name) \o <<",">>
        \o <<NumStr(t.n)>> \o <<"]">>

RECURSIVE JsonTuples(_)
JsonTuples(arr) ==
    IF arr = <<>> THEN <<>>
    ELSE JsonTuple(Head(arr))
         \o (IF Len(arr) > 1 THEN <<",">> ELSE <<>>) \o JsonTuples(Tail(arr))

JsonPayload(payload) ==
    <<"{", "\"", "g", "\"", ":", "[">> \o JsonTuples(payload.g) \o <<"]", ",">>
    \o <<"\"", "o", "\"", ":", "{">>
    \o JsonString("onlyForUsername") \o <<":">> \o JsonString(payload.o.onlyForUsername)
    \o <<",">>
    \o JsonString("bootstrapOpening") \o <<":">> \o JsonString(payload.o.bootstrapOpening)
    \o <<"}", "}">>

\* The canonical payload { g: arr, o: {...} } of both key functions.
KeyPayload(games, options) ==
    [g |-> SortById([i \in DOMAIN games |-> GameTuple(games[i])]),
     o |-> [onlyForUsername |-> OrEmpty(options.onlyForUsername),
            bootstrapOpening |-> OrEmpty(options.bootstrapOpening)]]

\* crypto.createHash('sha256').update(json).digest('hex'): the digest is taken
\* as injective on the text, so the key is the text under a tag.
Sha256Hex(json) == <<"sha256">> \o json

KeyOmittingBootstrap(games, options) ==
    Sha256Hex(JsonPayload([KeyPayload(games, options) EXCEPT
                               !.o.bootstrapOpening = ""]))

computeKeyFromDataset(games, options) ==
    Sha256Hex(JsonPayload(KeyPayload(games, options)))

(***************************************************************************)
(* The summary cache: values, serialisation and the two tiers.             *)
(***************************************************************************)
\* Keys given to save and tryGet. The class takes any string, the empty one
\* included; the route only passes digests.
Keys == {"", "k1", "k2"}
DigestKeys == {"k1", "k2"}

\* Summaries, cut down to a count and an optional number (centipawnLoss of an
\* event is optional): worst is <<>> when the property is undefined.
Summaries == {[blunders |-> 0, worst |-> <<>>], [blunders |-> 1, worst |-> <<3>>]}

\* payload.version of save: <<>> when not given.
PayloadVersions == {<<>>, <<1>>}

MemoryCapacities == {0, 1, 2}       \* cfg.maxMemoryItems
DiskBudgets == {15, 30, 10000}      \* cfg.maxDiskBytes, in the units of GzipLength

NumVal(tok) == CHOOSE n \in 0..9 : NumStr(n) = tok

\* JSON.stringify of a summary: a property whose value is undefined is left out.
SummaryJson(s) ==
    <<"{", "blunders", NumStr(s.blunders)>>
    \o (IF s.worst = <<>> THEN <<>> ELSE <<"centipawnLoss", NumStr(s.worst[1])>>)
    \o <<"}">>

SummaryParseWithoutLoss(text) == [blunders |-> NumVal(text[3]), worst |-> <<>>]

\* JSON.parse of that text: a property that is left out reads as undefined.
SummaryParse(text) ==
    [blunders |-> NumVal(text[3]),
     worst |-> IF text[4] = "centipawnLoss" THEN <<NumVal(text[5])>> ELSE <<>>]

\* JSON.stringify({ key, createdAt, version, summary }) + '\n'
EntryJson(key, createdAt, version, summary) ==
    <<"{", "key", key, "createdAt", NumStr(createdAt), "version", NumStr(version),
      "summary">> \o SummaryJson(summary) \o <<"}", "\n">>

\* JSON.parse(jsonl).summary
EntrySummary(text) == SummaryParse(SubSeq(text, 9, Len(text) - 2))

\* Bytes that are no gzip member (gunzipSync throws on them).
Garbage == <<"garbage">>

\* gzipSync(Buffer.from(json)): one gzip member; its length grows with the text.
GzipLength(json) == Len(json)

Gzip(json) == [length |-> GzipLength(json), text |-> json]

\* fs.statSync(dataFile).size
RECURSIVE FileSize(_)
FileSize(file) ==
    IF file = <<>> THEN 0 ELSE Head(file).length + FileSize(Tail(file))

\* Offset of the i-th member of the file.
MemberOffset(file, i) == FileSize(SubSeq(file, 1, i - 1))

ReadMemberFromStart(file, offset, length) ==
    IF file # <<>> /\ file[1].length = length THEN file[1].text ELSE Garbage

\* readSync(fd, buf, 0, length, offset) then gunzipSync(buf).toString(): the
\* text of the member that starts at offset and has that length; any other
\* range of the file (past its end, or across members) does not gunzip to one
\* JSON line.
ReadMember(file, offset, length) ==
    LET hits == {i \in DOMAIN file :
                    MemberOffset(file, i) = offset /\ file[i].length = length}
    IN  IF hits = {} THEN Garbage ELSE file[CHOOSE i \in hits : TRUE].text

(***************************************************************************)
(* LruMemory                                                               *)
(***************************************************************************)
\* Math.max(1, max)
LruMax(max) == IF max > 1 THEN max ELSE 1

MapHas(map, key) == \E i \in DOMAIN map : map[i].key = key

MapGet(map, key) == map[CHOOSE i \in DOMAIN map : map[i].key = key].value

MapDelete(map, key) == SelectSeq(map, LAMBDA e : e.key # key)

\* An empty string is falsy.
Truthy(key) == key # ""

\* LruMemory.get: the map after the call (a hit moves the entry to the end).
LruGet(map, key) ==
    IF MapHas(map, key)
    THEN Append(MapDelete(map, key), [key |-> key, value |-> MapGet(map, key)])
    ELSE map

LruSetEvictingNewest(map, max, key, value) ==
    LET put == Append(MapDelete(map, key), [key |-> key, value |-> value])
    IN  IF Len(put) > max THEN SubSeq(put, 1, Len(put) - 1) ELSE put

\* LruMemory.set: the map after the call.
LruSet(map, max, key, value) ==
    LET put == Append(MapDelete(map, key), [key |-> key, value |-> value])
        first == Head(put).key
    IN  IF Len(put) > max
        THEN IF Truthy(first) THEN MapDelete(put, first) ELSE put
        ELSE put

(***************************************************************************)
(* SummaryCache                                                            *)
(***************************************************************************)
IndexHas(idx, key) == \E i \in DOMAIN idx : idx[i].key = key

IndexGet(idx, key) == idx[CHOOSE i \in DOMAIN idx : idx[i].key = key]

\* this.index[key] = entry: an existing property keeps its place.
IndexPutKeepingOld(idx, entry) ==
    IF IndexHas(idx, entry.key) THEN idx ELSE Append(idx, entry)

IndexPut(idx, entry) ==
    IF IndexHas(idx, entry.key)
    THEN [i \in DOMAIN idx |-> IF idx[i].key = entry.key THEN entry ELSE idx[i]]
    ELSE Append(idx, entry)

\* delete this.index[key]
IndexDelete(idx, key) == SelectSeq(idx, LAMBDA e : e.key # key)

MapPut(m, key, v) == [k \in DOMAIN m \cup {key} |-> IF k = key THEN v ELSE m[k]]

MapRemove(m, key) == [k \in DOMAIN m \ {key} |-> m[k]]

\* getVersion(key): this.versionMap.get(key) ?? 1
getVersion(vm, key) == IF key \in DOMAIN vm THEN vm[key] ELSE 1

\* persistIndex(): the contents written to index.json
persistIndex(idx, file) == [index |-> idx, diskSize |-> FileSize(file)]

RECURSIVE SortNewestFirst(_)
SortNewestFirst(entries) ==
    IF entries = <<>> THEN <<>>
    ELSE LET newest == CHOOSE i \in DOMAIN entries :
                           \A j \in DOMAIN entries :
                               entries[j].createdAt <= entries[i].createdAt
         IN  <<entries[newest]>>
             \o SortNewestFirst(SubSeq(entries, 1, newest - 1)
                                    \o SubSeq(entries, newest + 1, Len(entries)))

\* entries.sort((a, b) => a.createdAt - b.createdAt), a stable sort
RECURSIVE InsertByCreatedAt(_, _)
InsertByCreatedAt(sorted, e) ==
    IF sorted = <<>> THEN <<e>>
    ELSE IF e.createdAt < Head(sorted).createdAt
         THEN <<e>> \o sorted
         ELSE <<Head(sorted)>> \o InsertByCreatedAt(Tail(sorted), e)

RECURSIVE SortByCreatedAt(_)
SortByCreatedAt(entries) ==
    IF entries = <<>> THEN <<>>
    ELSE InsertByCreatedAt(SortByCreatedAt(SubSeq(entries, 1, Len(entries) - 1)),
                           entries[Len(entries)])

\* The loop of evictIfNeeded over the sorted entries. st is [index, versionMap,
\* indexFile, evicted]; the data file is not written, so its size is the same
\* at every test of the loop.
RECURSIVE EvictLoop(_, _, _, _)
EvictLoop(entries, st, file, maxDiskBytes) ==
    IF entries = <<>> THEN st
    ELSE LET ent == Head(entries)
             idx == IndexDelete(st.index, ent.key)
             next == [index |-> idx,
                      versionMap |-> MapRemove(st.versionMap, ent.key),
                      indexFile |-> persistIndex(idx, file),
                      evicted |-> Append(st.evicted, ent)]
         IN  IF FileSize(file) <= maxDiskBytes THEN next
             ELSE EvictLoop(Tail(entries), next, file, maxDiskBytes)

\* evictIfNeeded(). No entry of the index carries deleted = true: the flag is
\* set on an entry in the same step that removes it from the index.
evictIfNeeded(st, file, maxDiskBytes) ==
    IF FileSize(file) <= maxDiskBytes THEN st
    ELSE EvictLoop(SortByCreatedAt(st.index), st, file, maxDiskBytes)

\* What tryGet returns: undefined, or { summary, createdAt, version }.
Miss == [kind |-> "miss"]

Hit(value) == [kind |-> "hit", value |-> value]

\* An exception leaving the call.
Threw == [kind |-> "threw"]

\* The body of the try block of tryGet: Buffer.alloc, readSync, gunzipSync and
\* JSON.parse throw when the entry designates no intact member of the file.
DiskRead(idx, file) ==
    LET text == ReadMember(file, idx.offset, idx.length)
    IN  IF text = Garbage THEN Threw
        ELSE Hit([summary |-> EntrySummary(text), createdAt |-> idx.createdAt,
                  version |-> idx.version])

tryGetUncaught(mem, max, idx, file, key) ==
    IF MapHas(mem, key)
    THEN [memory |-> LruGet(mem, key), result |-> Hit(MapGet(mem, key)),
          tier |-> "memory"]
    ELSE IF ~IndexHas(idx, key)
    THEN [memory |-> mem, result |-> Miss, tier |-> "none"]
    ELSE LET read == DiskRead(IndexGet(idx, key), file)
         IN  IF read.kind = "threw"
             THEN [memory |-> mem, result |-> Threw, tier |-> "failed"]
             ELSE [memory |-> LruSet(mem, max, key, read.value), result |-> read,
                   tier |-> "disk"]

\* tryGet(key): the memory map after the call, the value returned, and the
\* tier that answered (memory, disk, none: no index entry, failed: the catch).
tryGet(mem, max, idx, file, key) ==
    IF MapHas(mem, key)
    THEN [memory |-> LruGet(mem, key), result |-> Hit(MapGet(mem, key)),
          tier |-> "memory"]
    ELSE IF ~IndexHas(idx, key)
    THEN [memory |-> mem, result |-> Miss, tier |-> "none"]
    ELSE LET read == DiskRead(IndexGet(idx, key), file)
         IN  IF read.kind = "threw"
             THEN [memory |-> mem, result |-> Miss, tier |-> "failed"]
             ELSE [memory |-> LruSet(mem, max, key, read.value), result |-> read,
                   tier |-> "disk"]

\* The cache object: the fields save reads and writes.
Cache == [memory |-> memory, index |-> index, versionMap |-> versionMap,
          dataFile |-> dataFile, indexFile |-> indexFile]

\* save(key, payload) at Date.now() = now: the cache after the call, with the
\* version it stored and the entries it evicted.
save(c, max, maxDiskBytes, key, summary, payloadVersion, now) ==
    LET version == IF payloadVersion = <<>> THEN getVersion(c.versionMap, key) + 1
                   ELSE payloadVersion[1]
        json == EntryJson(key, now, version, summary)
        gz == Gzip(json)
        offset == FileSize(c.dataFile)
        file == Append(c.dataFile, gz)
        entry == [key |-> key, offset |-> offset, length |-> gz.length,
                  createdAt |-> now, version |-> version, size |-> gz.length]
        idx == IndexPut(c.index, entry)
        mem == LruSet(c.memory, max, key,
                      [summary |-> summary, createdAt |-> now, version |-> version])
        st == evictIfNeeded([index |-> idx,
                             versionMap |-> MapPut(c.versionMap, key, version),
                             indexFile |-> persistIndex(idx, file),
                             evicted |-> <<>>],
                            file, maxDiskBytes)
    IN  [memory |-> mem, index |-> st.index, versionMap |-> st.versionMap,
         dataFile |-> file, indexFile |-> st.indexFile, evicted |-> st.evicted,
         version |-> version, createdAt |-> now]

\* index.json after a writeFileSync that did not complete: no JSON text.
TornJson == [torn |-> TRUE]

constructorWithoutVersions(idxFile) ==
    IF idxFile = TornJson
    THEN [memory |-> <<>>, index |-> <<>>, versionMap |-> <<>>]
    ELSE [memory |-> <<>>, index |-> idxFile.index, versionMap |-> <<>>]

\* new SummaryCache(cfg) on a directory that holds the two files: the index
\* and the versions are read from index.json, or are empty when JSON.parse
\* throws; the memory tier is empty.
constructor(idxFile) ==
    IF idxFile = TornJson
    THEN [memory |-> <<>>, index |-> <<>>, versionMap |-> <<>>]
    ELSE [memory |-> <<>>, index |-> idxFile.index,
          versionMap |-> [k \in {idxFile.index[i].key : i \in DOMAIN idxFile.index}
                            |-> IndexGet(idxFile.index, k).version]]

\* Date.now() at a call: the clock has not moved, or has moved on by one.
Nows == {t \in {clock, clock + 1} : t <= MaxClock}

(***************************************************************************)
(* Calls of the cache.                                                     *)
(***************************************************************************)
Install(c, key, summary, given, now) ==
    /\ memory' = c.memory
    /\ index' = c.index
    /\ versionMap' = c.versionMap
    /\ dataFile' = c.dataFile
    /\ indexFile' = c.indexFile
    /\ evicted' = c.evicted
    /\ clock' = now
    /\ hist' = Append(hist, [key |-> key, summary |-> summary,
                             createdAt |-> c.createdAt, version |-> c.version,
                             given |-> given])

\* cache.save(key, { summary, version? })
Save(key, summary, payloadVersion) ==
    /\ Len(hist) < MaxSaves
    /\ \E now \in Nows :
          LET c == save(Cache, LruMax(cfg.maxMemoryItems), cfg.maxDiskBytes,
                        key, summary, payloadVersion, now)
          IN  /\ Install(c, key, summary, payloadVersion # <<>>, now)
              /\ ret' = [op |-> "save", key |-> key, result |-> Miss,
                         tier |-> "none"]
    /\ UNCHANGED <<cfg, reqs, keyVars, batchVars>>

\* cache.tryGet(key)
TryGet(key) ==
    /\ LET g == tryGet(memory, LruMax(cfg.maxMemoryItems), index, dataFile, key)
       IN  /\ memory' = g.memory
           /\ ret' = [op |-> "tryGet", key |-> key, result |-> g.result,
                      tier |-> g.tier]
    /\ UNCHANGED <<cfg, index, versionMap, dataFile, indexFile, clock, evicted,
                   hist, reqs, keyVars, batchVars>>

\* The process stops in cache.save(key, { summary }) after appendFileSync:
\* the log holds the new member, and index.json is as it was (the stop came
\* before persistIndex wrote it) or torn (the stop came while writeFileSync
\* was writing it). Then a new SummaryCache opens the directory.
CrashInSaveAndReopen(key, summary, torn) ==
    /\ Len(dataFile) < MaxSaves
    /\ \E now \in Nows :
          LET json == EntryJson(key, now, getVersion(versionMap, key) + 1, summary)
              idxFile == IF torn THEN TornJson ELSE indexFile
              c == constructor(idxFile)
          IN  /\ dataFile' = Append(dataFile, Gzip(json))
              /\ indexFile' = idxFile
              /\ memory' = c.memory
              /\ index' = c.index
              /\ versionMap' = c.versionMap
              /\ clock' = now
    /\ evicted' = <<>>
    /\ ret' = [op |-> "reopen", key |-> key, result |-> Miss, tier |-> "none"]
    /\ UNCHANGED <<cfg, hist, reqs, keyVars, batchVars>>

\* The owner of the directory ends between two calls and a new
\* SummaryCache(cfg) opens the directory: the two files are as they were left.
Reopen ==
    /\ LET c == constructor(indexFile)
       IN  /\ memory' = c.memory
           /\ index' = c.index
           /\ versionMap' = c.versionMap
    /\ evicted' = <<>>
    /\ ret' = [op |-> "open", key |-> "", result |-> Miss, tier |-> "none"]
    /\ UNCHANGED <<cfg, dataFile, indexFile, clock, hist, reqs, keyVars,
                   batchVars>>

(***************************************************************************)
(* POST /api/analyze                                                       *)
(***************************************************************************)
Reqs == {"r1", "r2"}                \* requests of one run
CpuCounts == {1, 2, 16}             \* os.cpus().length
MaxBatch == 2                       \* most games in one request

Min(a, b) == IF a < b THEN a ELSE b

\* options?.bootstrapOpening ? 1 : Math.min(numCPUs, 8)
NumWorkersIgnoringBootstrap(cpus, bootstrap) == Min(cpus, 8)

NumWorkers(cpus, bootstrap) == IF bootstrap THEN 1 ELSE Min(cpus, 8)

\* Math.ceil(workingSet.length / numWorkers)
ChunkSize(len, numWorkers) == (len + numWorkers - 1) \div numWorkers

\* Number of chunks pushed by the loop for (i = 0; i < len; i += chunkSize).
NumChunks(len, chunkSize) ==
    IF len = 0 THEN 0 ELSE (len + chunkSize - 1) \div chunkSize

\* The merged summary of no worker result at all.
EmptySummary == [blunders |-> 0, worst |-> <<>>]

NoResponse == [status |-> "none", cached |-> FALSE, summary |-> <<>>,
               createdAt |-> 0, version |-> 0]

\* req.body.games: missing (or another falsy value), a value that is no array,
\* or an array of the given length.
NoGames == [truthy |-> FALSE, isArray |-> FALSE, length |-> 0]

ArrayOf(n) == [truthy |-> TRUE, isArray |-> TRUE, length |-> n]

RawGamesFields ==
    {NoGames, [truthy |-> TRUE, isArray |-> FALSE, length |-> 0]}
        \cup {ArrayOf(n) : n \in 0..MaxBatch}

\* A validation that lets an empty array pass.
ValidGamesOrEmpty(games) == games.truthy /\ games.isArray

\* The negation of !games || !Array.isArray(games) || games.length === 0
ValidGames(games) == games.truthy /\ games.isArray /\ games.length # 0

\* What the validation of lines 199-203 reads of the games field.
GamesChecks(games) ==
    [truthy |-> games.truthy, isArray |-> games.isArray,
     empty |-> games.length = 0]

\* A request: where it stands, what the validation read of its games field, its
\* key and force flag, the workers started and
\* those still to reply, whether one of them failed, the tier that answered
\* its lookup, the version stored
\* when it arrived, the version its save stored, and its response.
IdleReq == [pc |-> "idle", games |-> GamesChecks(NoGames), key |-> "k1", force |-> FALSE,
            pending |-> 0, started |-> 0, failed |-> FALSE, lookup |-> "none",
            before |-> <<>>, saved |-> <<>>, resp |-> NoResponse]

\* The version tryGet(key) would return (<<>> when neither tier has the key).
StoredVersion(mem, idx, key) ==
    IF MapHas(mem, key) THEN <<MapGet(mem, key).version>>
    ELSE IF IndexHas(idx, key) THEN <<IndexGet(idx, key).version>>
    ELSE <<>>

\* Line 215: the response to a cache hit.
HitResponseWithoutMeta(hit) ==
    [status |-> "ok", cached |-> TRUE, summary |-> <<hit.summary>>,
     createdAt |-> 0, version |-> 0]

HitResponse(hit) ==
    [status |-> "ok", cached |-> TRUE, summary |-> <<hit.summary>>,
     createdAt |-> hit.createdAt, version |-> hit.version]

\* Lines 225-243: the merge is complete; save, then answer with
\* meta.version = getVersion(key).
Complete(r, q, summary, now) ==
    LET c == save(Cache, LruMax(cfg.maxMemoryItems), cfg.maxDiskBytes,
                  q.key, summary, <<>>, now)
    IN  /\ Install(c, q.key, summary, FALSE, now)
        /\ ret' = [op |-> "save", key |-> q.key, result |-> Miss, tier |-> "none"]
        /\ reqs' = [reqs EXCEPT ![r] =
              [q EXCEPT !.pc = "done", !.pending = 0, !.saved = <<c.version>>,
                        !.resp = [status |-> "ok", cached |-> FALSE,
                                  summary |-> <<summary>>, createdAt |-> now,
                                  version |-> getVersion(c.versionMap, q.key)]]]

\* A request with a non-empty games array arrives: the key, the lookup unless
\* forced, and on a miss the dispatch of one worker per chunk. games is
\* games.length, matching the number of games of the bootstrap opening.
ReqStart(r, key, force, games, bootstrap, matching, cpus) ==
    /\ reqs[r].pc = "idle"
    /\ LET look == IF force THEN [memory |-> memory, result |-> Miss, tier |-> "none"]
                   ELSE tryGet(memory, LruMax(cfg.maxMemoryItems), index,
                               dataFile, key)
           looked == IF force THEN ret
                     ELSE [op |-> "tryGet", key |-> key, result |-> look.result,
                           tier |-> look.tier]
           working == IF bootstrap THEN matching ELSE games
           numWorkers == NumWorkers(cpus, bootstrap)
           chunks == NumChunks(working, ChunkSize(working, numWorkers))
           q == [IdleReq EXCEPT !.games = GamesChecks(ArrayOf(games)),
                                !.key = key, !.force = force,
                                !.lookup = look.tier,
                                !.before = StoredVersion(memory, index, key),
                                !.started = chunks, !.pending = chunks]
       IN  IF look.result.kind = "threw"
           THEN \* the catch of the route: 500
                /\ ret' = looked
                /\ reqs' = [reqs EXCEPT ![r] =
                      [q EXCEPT !.pc = "done", !.started = 0, !.pending = 0,
                                !.resp = [NoResponse EXCEPT !.status = "error"]]]
                /\ UNCHANGED <<memory, index, versionMap, dataFile, indexFile,
                               clock, evicted, hist>>
           ELSE IF look.result.kind = "hit"
           THEN /\ memory' = look.memory
                /\ ret' = looked
                /\ reqs' = [reqs EXCEPT ![r] =
                      [q EXCEPT !.pc = "done", !.started = 0, !.pending = 0,
                                !.resp = HitResponse(look.result.value)]]
                /\ UNCHANGED <<index, versionMap, dataFile, indexFile, clock,
                               evicted, hist>>
           ELSE IF chunks = 0
           THEN \* Promise.all([]) resolves at once: merge of nothing, save
                /\ Len(hist) < MaxSaves
                /\ \E now \in Nows : Complete(r, q, EmptySummary, now)
           ELSE /\ memory' = look.memory
                /\ ret' = looked
                /\ reqs' = [reqs EXCEPT ![r] = [q EXCEPT !.pc = "workers"]]
                /\ UNCHANGED <<index, versionMap, dataFile, indexFile, clock,
                               evicted, hist>>
    /\ UNCHANGED <<cfg, keyVars, batchVars>>

\* Lines 199-203: the games field is missing, no array or empty: 400.
ReqRejected(r, games) ==
    /\ reqs[r].pc = "idle"
    /\ reqs' = [reqs EXCEPT ![r] =
          [IdleReq EXCEPT !.pc = "done", !.games = GamesChecks(games),
                          !.resp = [NoResponse EXCEPT !.status = "rejected"]]]
    /\ UNCHANGED <<cacheVars, keyVars, batchVars>>

\* POST /api/analyze with a body whose games field is games.
ReqArrives(r, games, key, force, bootstrap, matching, cpus) ==
    IF ValidGames(games)
    THEN ReqStart(r, key, force, games.length, bootstrap, matching, cpus)
    ELSE ReqRejected(r, games)

\* A worker posts { type: 'result' } while others are still running: its
\* promise resolves.
WorkerResultSaving(r) ==
    /\ reqs[r].pc = "workers"
    /\ reqs[r].pending > 1
    /\ Len(hist) < MaxSaves
    /\ \E now \in Nows :
          LET c == save(Cache, LruMax(cfg.maxMemoryItems), cfg.maxDiskBytes,
                        reqs[r].key, EmptySummary, <<>>, now)
          IN  Install(c, reqs[r].key, EmptySummary, FALSE, now)
    /\ ret' = [op |-> "save", key |-> reqs[r].key, result |-> Miss, tier |-> "none"]
    /\ reqs' = [reqs EXCEPT ![r].pending = @ - 1]
    /\ UNCHANGED <<cfg, keyVars, batchVars>>

WorkerResult(r) ==
    /\ reqs[r].pc = "workers"
    /\ reqs[r].pending > 1
    /\ reqs' = [reqs EXCEPT ![r].pending = @ - 1]
    /\ UNCHANGED <<cacheVars, keyVars, batchVars>>

\* The last worker posts its result: Promise.all resolves and the route merges
\* (summary is the merged summary), saves and answers.
AllWorkersDone(r, summary) ==
    /\ reqs[r].pc = "workers"
    /\ reqs[r].pending = 1
    /\ Len(hist) < MaxSaves
    /\ \E now \in Nows : Complete(r, reqs[r], summary, now)
    /\ UNCHANGED <<cfg, keyVars, batchVars>>

\* A worker error that is dropped: the route merges what the other workers
\* returned, saves it and answers with it.
WorkerErrorIgnored(r) ==
    /\ reqs[r].pc = "workers"
    /\ Len(hist) < MaxSaves
    /\ \E now \in Nows :
          Complete(r, [reqs[r] EXCEPT !.failed = TRUE], EmptySummary, now)
    /\ UNCHANGED <<cfg, keyVars, batchVars>>

\* A worker posts { type: 'error' } or crashes: Promise.all rejects, the
\* remaining workers are terminated and the route answers 500.
WorkerError(r) ==
    /\ reqs[r].pc = "workers"
    /\ reqs' = [reqs EXCEPT ![r] =
          [@ EXCEPT !.pc = "done", !.pending = 0, !.failed = TRUE,
                    !.resp = [NoResponse EXCEPT !.status = "error"]]]
    /\ UNCHANGED <<cacheVars, keyVars, batchVars>>

(***************************************************************************)
(* Faults of the disk tier.                                                *)
(***************************************************************************)
\* The disk tier as the last save left it: every member intact, the file as
\* long as index.json says, every entry with its length. One fault strikes a
\* sound disk; the next save makes the files agree again.
DiskSound ==
    /\ \A i \in DOMAIN dataFile : dataFile[i].text # Garbage
    /\ FileSize(dataFile) = indexFile.diskSize
    /\ \A i \in DOMAIN index : index[i].length # 0

\* Bytes of one member of the data file are overwritten.
GarbleMember(i) ==
    /\ DiskSound
    /\ i \in DOMAIN dataFile
    /\ dataFile[i].text # Garbage
    /\ dataFile' = [dataFile EXCEPT ![i].text = Garbage]
    /\ UNCHANGED <<cfg, memory, index, versionMap, indexFile, clock, ret,
                   evicted, hist, reqs, keyVars, batchVars>>

\* The data file is cut after its first n members (n = 0: lost and recreated
\* empty), while the index still names the members that are gone.
TruncateFile(n) ==
    /\ DiskSound
    /\ n < Len(dataFile)
    /\ dataFile' = SubSeq(dataFile, 1, n)
    /\ UNCHANGED <<cfg, memory, index, versionMap, indexFile, clock, ret,
                   evicted, hist, reqs, keyVars, batchVars>>

\* An index entry no longer carries a usable length.
CorruptEntry(key) ==
    /\ DiskSound
    /\ IndexHas(index, key)
    /\ IndexGet(index, key).length # 0
    /\ index' = IndexPut(index, [IndexGet(index, key) EXCEPT !.length = 0])
    /\ UNCHANGED <<cfg, memory, versionMap, dataFile, indexFile, clock, ret,
                   evicted, hist, reqs, keyVars, batchVars>>

(***************************************************************************)
(* Calls of computeKeyFromDataset on a dataset and on a variant of it.     *)
(***************************************************************************)
Datasets == [games : SeqsUpTo(Games, MaxGames), options : Options]

Perms(n) == {p \in [1..n -> 1..n] : \A i \in 1..n : \E j \in 1..n : p[j] = i}

\* computeKeyFromDataset(games, options) on the dataset.
ComputeKey ==
    /\ keys.a = <<>>
    /\ keys' = [keys EXCEPT !.a = computeKeyFromDataset(dataset.games,
                                                        dataset.options)]
    /\ UNCHANGED <<dataset, variant, cacheVars, reqs, batchVars>>

\* The call on a second input, which differs from the dataset as how says.
ComputeVariant(games, options, how) ==
    /\ keys.a # <<>>
    /\ variant.how = "none"
    /\ variant' = [games |-> games, options |-> options, how |-> how]
    /\ keys' = [keys EXCEPT !.b = computeKeyFromDataset(games, options)]
    /\ UNCHANGED <<dataset, cacheVars, reqs, batchVars>>

\* The same games in another order.
Permute(p) ==
    /\ p # [i \in DOMAIN dataset.games |-> i]
    /\ ComputeVariant([i \in DOMAIN dataset.games |-> dataset.games[p[i]]],
                      dataset.options, "permute")

ChangeId(i, id) ==
    /\ dataset.games[i].id # id
    /\ ComputeVariant([dataset.games EXCEPT ![i].id = id], dataset.options, "id")

ChangeOpening(i, name) ==
    /\ dataset.games[i].opening # name
    /\ ComputeVariant([dataset.games EXCEPT ![i].opening = name], dataset.options,
                      "opening")

ChangeAnalysis(i, analysis) ==
    /\ dataset.games[i].analysis # analysis
    /\ ComputeVariant([dataset.games EXCEPT ![i].analysis = analysis],
                      dataset.options, "analysis")

\* One game fewer.
DropGame(i) ==
    ComputeVariant(SubSeq(dataset.games, 1, i - 1)
                       \o SubSeq(dataset.games, i + 1, Len(dataset.games)),
                   dataset.options, "drop")

ChangeUser(user) ==
    /\ dataset.options.onlyForUsername # user
    /\ ComputeVariant(dataset.games,
                      [dataset.options EXCEPT !.onlyForUsername = user], "user")

ChangeBootstrap(name) ==
    /\ dataset.options.bootstrapOpening # name
    /\ ComputeVariant(dataset.games,
                      [dataset.options EXCEPT !.bootstrapOpening = name],
                      "bootstrap")

(***************************************************************************)
(* The move classifier: analyzeGames of the server (server/src/analysis,   *)
(* with the bootstrap engine) and analyzeGames of the client               *)
(* (src/lib/analysis). A game is [id, opening, white, black, analysis,     *)
(* pgn]; a move of the analysis is [ply, judgment, cp, mate], where a      *)
(* field that may be missing is <<>> or <<value>>: ply is mv.ply, judgment *)
(* is [name, cp] of mv.judgment, cp and mate are mv.eval.cp and            *)
(* mv.eval.mate. Player names stand for their trimmed lower-case form.     *)
(***************************************************************************)
Kinds == {"inaccuracy", "mistake", "blunder"}

OpeningNames == {"Unknown", "X", "Y"}

\* x ?? 0
Opt0(x) == IF x = <<>> THEN 0 ELSE x[1]

Abs(n) == IF n < 0 THEN -n ELSE n

\* plyValue % 2 === 1 ? 'white' : 'black'
Side(ply) == IF ply % 2 = 1 THEN "white" ELSE "black"

\* Math.ceil(plyValue / 2)
MoveNumber(ply) == (ply + 1) \div 2

\* The summary analyzeGames starts from. An object of counts per opening is a
\* function on the opening names, 0 standing for a property that is not set.
NewSummary ==
    [total |-> [inaccuracies |-> 0, mistakes |-> 0, blunders |-> 0],
     mistakesByOpening |-> [o \in OpeningNames |-> 0],
     blundersByOpening |-> [o \in OpeningNames |-> 0],
     topBlunders |-> <<>>, topMistakes |-> <<>>]

CountBlundersInTotalOnly(summary, kind, opening) ==
    [summary EXCEPT
        !.total = CASE kind = "blunder" -> [@ EXCEPT !.blunders = @ + 1]
                    [] kind = "mistake" -> [@ EXCEPT !.mistakes = @ + 1]
                    [] OTHER -> [@ EXCEPT !.inaccuracies = @ + 1],
        !.mistakesByOpening[opening] = @ + 1]

\* The increments of one event of the given kind in the given opening.
Count(summary, kind, opening) ==
    [summary EXCEPT
        !.total = CASE kind = "blunder" -> [@ EXCEPT !.blunders = @ + 1]
                    [] kind = "mistake" -> [@ EXCEPT !.mistakes = @ + 1]
                    [] OTHER -> [@ EXCEPT !.inaccuracies = @ + 1],
        !.mistakesByOpening[opening] = @ + 1,
        !.blundersByOpening[opening] = IF kind = "blunder" THEN @ + 1 ELSE @]

\* String(game?.id ?? '') and String(game?.opening?.name ?? 'Unknown')
GameId(game) == Coalesce(game.id, "")

OpeningName(game) == Coalesce(game.opening, "Unknown")

\* An entry of topBlunders or topMistakes; kind is <<>> and bootstrapped FALSE
\* where the entry has no such property.
Event(gameId, ply, cp) ==
    [gameId |-> gameId, moveNumber |-> MoveNumber(ply), ply |-> ply,
     side |-> Side(ply), centipawnLoss |-> cp, kind |-> <<>>,
     bootstrapped |-> FALSE]

\* Server: the totals, topBlunders for a blunder, and the raw label kept for
\* the bootstrap index. topMistakes gets no entry here.
Emit(st, game, ply, kind, cp) ==
    [st EXCEPT
        !.summary =
            LET s == Count(@, kind, OpeningName(game))
            IN  IF kind = "blunder"
                THEN [s EXCEPT !.topBlunders =
                                   Append(@, Event(GameId(game), ply, cp))]
                ELSE s,
        !.rawLabels =
            Append(@, [gameId |-> GameId(game), moveNumber |-> MoveNumber(ply),
                       ply |-> ply, side |-> Side(ply), kind |-> kind,
                       cp |-> cp, opening |-> OpeningName(game)])]

\* Client: the totals, topBlunders for a blunder and topMistakes for every
\* event.
ClientEmit(st, game, ply, kind, cp) ==
    [st EXCEPT
        !.summary =
            LET s == Count(@, kind, OpeningName(game))
                e == Event(GameId(game), ply, cp)
            IN  [s EXCEPT !.topBlunders = IF kind = "blunder" THEN Append(@, e)
                                          ELSE @,
                          !.topMistakes = Append(@, [e EXCEPT !.kind = <<kind>>])]]

\* The side the target user plays in the game ("none": no filter).
TargetSide(game, target) ==
    IF target = "" THEN "none"
    ELSE IF game.white = target THEN "white"
    ELSE IF game.black = target THEN "black"
    ELSE "none"

\* typeof mv?.ply === 'number' ? mv.ply : idx + 1, i being idx + 1
PlyValue(mv, i) == IF mv.ply = <<>> THEN i ELSE mv.ply[1]

\* The move was not made by the side of the target user.
NotTargetMove(side, ply) == side # "none" /\ Side(ply) # side

HasJudgmentsOnFirstMove(game) ==
    game.analysis # <<>> /\ game.analysis[1].judgment # <<>>

\* analyzedMoves.some((mv) => mv?.judgment?.name)
HasJudgments(game) == \E i \in DOMAIN game.analysis : game.analysis[i].judgment # <<>>

\* The judgment path, for the move at index i - 1.
JudgedMove(st, game, side, i) ==
    LET mv == game.analysis[i]
        ply == PlyValue(mv, i)
    IN  IF mv.judgment = <<>> THEN st
        ELSE IF NotTargetMove(side, ply) THEN st
        ELSE IF mv.judgment[1].name \notin Kinds THEN st
        ELSE IF st.client
             THEN ClientEmit(st, game, ply, mv.judgment[1].name, mv.judgment[1].cp)
             ELSE Emit(st, game, ply, mv.judgment[1].name, mv.judgment[1].cp)

\* Client: the loss of the mover of ply plyIndex, 0 when a score is missing or
\* a mate distance is involved.
lossForMover(prev, curr, plyIndex) ==
    IF prev.cp = <<>> \/ curr.cp = <<>> THEN 0
    ELSE IF prev.mate # <<>> \/ curr.mate # <<>> THEN 0
    ELSE LET deltaWhite == curr.cp[1] - prev.cp[1]
         IN  IF plyIndex % 2 = 1
             THEN (IF -deltaWhite > 0 THEN -deltaWhite ELSE 0)
             ELSE (IF deltaWhite > 0 THEN deltaWhite ELSE 0)

\* Server: typeof prev.cp === 'number' && typeof curr.cp === 'number'
\*           ? Math.abs(curr.cp - prev.cp) : 0
AbsDelta(prev, curr) ==
    IF prev.cp = <<>> \/ curr.cp = <<>> THEN 0
    ELSE Abs(curr.cp[1] - prev.cp[1])

\* The thresholds: the kind of event of a loss, <<>> for no event.
SeverityAt100(delta) ==
    IF delta >= 250 THEN <<"blunder">>
    ELSE IF delta >= 150 THEN <<"mistake">>
    ELSE IF delta >= 100 THEN <<"inaccuracy">>
    ELSE <<>>

Severity(delta) ==
    IF delta >= 250 THEN <<"blunder">>
    ELSE IF delta >= 150 THEN <<"mistake">>
    ELSE IF delta >= 60 THEN <<"inaccuracy">>
    ELSE <<>>

\* The derived path, for the evaluations at indexes i - 2 and i - 1.
DerivedMove(st, game, side, i) ==
    LET prev == game.analysis[i - 1]
        curr == game.analysis[i]
        ply == PlyValue(curr, i)
        delta == IF st.client THEN lossForMover(prev, curr, ply)
                 ELSE AbsDelta(prev, curr)
    IN  IF NotTargetMove(side, ply) \/ Severity(delta) = <<>> THEN st
        ELSE IF st.client
             THEN ClientEmit(st, game, ply, Severity(delta)[1], <<delta>>)
             ELSE Emit(st, game, ply, Severity(delta)[1], <<delta>>)

\* The loop over the games and, in each, over its moves: the judgment path
\* when a move of the game carries a judgment, else the derived path from the
\* second evaluation on. j is the game and i the move to do next.
RECURSIVE Classify(_, _, _, _, _)
Classify(st, games, target, j, i) ==
    IF j > Len(games) THEN st
    ELSE IF i > Len(games[j].analysis) THEN Classify(st, games, target, j + 1, 1)
    ELSE LET game == games[j]
             side == TargetSide(game, target)
         IN  Classify(IF HasJudgments(game) THEN JudgedMove(st, game, side, i)
                      ELSE IF i = 1 THEN st
                      ELSE DerivedMove(st, game, side, i),
                      games, target, j, i + 1)

RECURSIVE SortByLossTiesReversed(_)
SortByLossTiesReversed(events) ==
    IF events = <<>> THEN <<>>
    ELSE LET sorted == SortByLossTiesReversed(SubSeq(events, 1, Len(events) - 1))
             e == events[Len(events)]
             k == Cardinality({i \in DOMAIN sorted :
                     Opt0(sorted[i].centipawnLoss) > Opt0(e.centipawnLoss)})
         IN  SubSeq(sorted, 1, k) \o <<e>> \o SubSeq(sorted, k + 1, Len(sorted))

\* sort((a, b) => (b.centipawnLoss ?? 0) - (a.centipawnLoss ?? 0)): stable.
RECURSIVE SortByLoss(_)
SortByLoss(events) ==
    IF events = <<>> THEN <<>>
    ELSE LET sorted == SortByLoss(SubSeq(events, 1, Len(events) - 1))
             e == events[Len(events)]
             \* e goes behind the entries whose loss is not smaller
             k == Cardinality({i \in DOMAIN sorted :
                     Opt0(sorted[i].centipawnLoss) >= Opt0(e.centipawnLoss)})
         IN  SubSeq(sorted, 1, k) \o <<e>> \o SubSeq(sorted, k + 1, Len(sorted))

(***************************************************************************)
(* The bootstrap engine of the server's analyzeGames.                      *)
(***************************************************************************)
Max(S) == CHOOSE x \in S : \A y \in S : y <= x

IsEvaluatedByJudgment(game) ==
    \E i \in DOMAIN game.analysis : game.analysis[i].judgment # <<>>

\* gameIsEvaluated: a move has a judgment or a numeric evaluation.
IsEvaluated(game) ==
    \E i \in DOMAIN game.analysis :
        game.analysis[i].judgment # <<>> \/ game.analysis[i].cp # <<>>

\* The board after a ply of the move text is a token: "se" is the piece
\* placement of "s" with an en-passant target square, every other token is a
\* piece placement without one. Two tokens stand for a move that gives no
\* board: "?" is move text that loadPgn cannot parse, "!" a move of the
\* history that the replaying engine rejects.
Placement(board) == IF board = "se" THEN "s" ELSE board

EnPassant(board) == board = "se"

\* computePositions: the FEN (temp.fen()) after each ply of the move text,
\* none when the game has no move text or the move text does not load.
\* game.pgn[p] is the board after ply p; the side to move and the move
\* counter of the FEN follow from p, the moves being replayed from the
\* initial position. The entry of ply 0, the FEN at the end of the move
\* text, is the last entry (see IndexLabel).
Fen(board, p) ==
    [placement |-> Placement(board), turn |-> IF p % 2 = 1 THEN "b" ELSE "w",
     enPassant |-> EnPassant(board), fullmove |-> (p \div 2) + 1]

\* engine.loadPgn(pgnRaw); engine.history({ verbose: true }): the moves, or
\* an exception.
loadPgn(pgn) ==
    IF \E p \in DOMAIN pgn : pgn[p] = "?" THEN Threw
    ELSE [kind |-> "ok", verbose |-> pgn]

\* The body of the try block of computePositions.
computePositionsUncaught(game) ==
    IF game.pgn = <<>> THEN [kind |-> "ok", positions |-> <<>>]
    ELSE IF loadPgn(game.pgn).kind = "threw" THEN Threw
    ELSE IF \E p \in DOMAIN game.pgn : game.pgn[p] = "!" THEN Threw
    ELSE [kind |-> "ok",
          positions |-> [p \in 1..Len(game.pgn) |-> Fen(game.pgn[p], p)]]

computePositions(game) ==
    LET r == computePositionsUncaught(game)
    IN  IF r.kind = "threw" THEN <<>> ELSE r.positions

\* gameById.get(gid): the last game with that id; games without id are not in
\* the map. openingByGame holds the opening name of the same game.
GameById(games, gid) ==
    LET I == {i \in DOMAIN games : GameId(games[i]) = gid}
    IN  IF gid = "" \/ I = {} THEN <<>> ELSE <<games[Max(I)]>>

\* positionsByGame.get(gid) after the precomputation: the positions of the
\* last unevaluated game of the opening with that id, else those of the game
\* of a label with that id, else nothing.
PositionsByGame(games, labels, restrict, gid) ==
    LET U == {i \in DOMAIN games :
                /\ gid # ""
                /\ GameId(games[i]) = gid
                /\ OpeningName(GameById(games, gid)[1]) = restrict
                /\ ~IsEvaluated(games[i])}
    IN  IF U # {} THEN computePositions(games[Max(U)])
        ELSE IF /\ \E l \in DOMAIN labels : labels[l].gameId = gid
                /\ GameById(games, gid) # <<>>
             THEN computePositions(GameById(games, gid)[1])
        ELSE <<>>

SeverityRank(k) == CASE k = "blunder" -> 3 [] k = "mistake" -> 2 [] OTHER -> 1

\* One label put into fenIndex (a list of aggregates, one per FEN).
IndexLabel(fenIndex, lbl, pos) ==
    IF pos = <<>> \/ lbl.ply \notin 0..Len(pos) THEN fenIndex
    ELSE LET fen == IF lbl.ply = 0 THEN pos[Len(pos)] ELSE pos[lbl.ply]
             I == {i \in DOMAIN fenIndex : fenIndex[i].fen = fen}
         IN  IF I = {}
             THEN Append(fenIndex,
                         [fen |-> fen, kind |-> lbl.kind,
                          moveNumber |-> lbl.moveNumber, ply |-> lbl.ply,
                          opening |-> lbl.opening, cp |-> lbl.cp,
                          frequency |-> 1])
             ELSE LET i == CHOOSE i \in I : TRUE
                      e == [fenIndex[i] EXCEPT !.frequency = @ + 1]
                      f == IF SeverityRank(lbl.kind) > SeverityRank(e.kind)
                           THEN [e EXCEPT !.kind = lbl.kind,
                                          !.moveNumber = lbl.moveNumber,
                                          !.ply = lbl.ply,
                                          !.opening = lbl.opening]
                           ELSE e
                      g == IF /\ lbl.cp # <<>>
                              /\ (f.cp = <<>> \/ lbl.cp[1] > Opt0(f.cp))
                           THEN [f EXCEPT !.cp = lbl.cp]
                           ELSE f
                  IN  [fenIndex EXCEPT ![i] = g]

\* fenIndex: the loop over rawLabels, l being the label to do next.
RECURSIVE BuildIndex(_, _, _, _, _)
BuildIndex(fenIndex, games, labels, restrict, l) ==
    IF l > Len(labels) THEN fenIndex
    ELSE BuildIndex(IndexLabel(fenIndex, labels[l],
                               PositionsByGame(games, labels, restrict,
                                               labels[l].gameId)),
                    games, labels, restrict, l + 1)

\* A match applied: the totals and an entry of topMistakes.
ApplyMatchToBlunders(summary, gid, opening, agg, ply) ==
    LET e == [Event(gid, ply, agg.cp) EXCEPT !.kind = <<agg.kind>>,
                                             !.bootstrapped = TRUE]
    IN  [Count(summary, agg.kind, opening) EXCEPT
            !.topMistakes = Append(@, e),
            !.topBlunders = IF agg.kind = "blunder" THEN Append(@, e) ELSE @]

ApplyMatch(summary, gid, opening, agg, ply) ==
    [Count(summary, agg.kind, opening) EXCEPT
        !.topMistakes = Append(@, [Event(gid, ply, agg.cp) EXCEPT
                                       !.kind = <<agg.kind>>,
                                       !.bootstrapped = TRUE])]

RECURSIVE BootstrapAnySide(_, _, _, _, _, _, _)
BootstrapAnySide(summary, games, labels, fenIndex, restrict, j, ply) ==
    IF j > Len(games) THEN summary
    ELSE LET game == games[j]
             gid == GameId(game)
             eligible == /\ ~IsEvaluated(game)
                         /\ gid # ""
                         /\ OpeningName(GameById(games, gid)[1]) = restrict
             pos == IF eligible
                    THEN PositionsByGame(games, labels, restrict, gid)
                    ELSE <<>>
         IN  IF ply > Len(pos)
             THEN BootstrapAnySide(summary, games, labels, fenIndex, restrict, j + 1, 1)
             ELSE LET I == {i \in DOMAIN fenIndex : fenIndex[i].fen = pos[ply]}
                      agg == fenIndex[CHOOSE i \in I : TRUE]
                  IN  BootstrapAnySide(IF I = {} THEN summary
                                       ELSE ApplyMatch(summary, gid, restrict, agg, ply),
                                       games, labels, fenIndex, restrict, j, ply + 1)

\* The loop over the games and, for an unevaluated game of the opening, over
\* the plies of its positions: j is the game and ply the ply to do next.
RECURSIVE Bootstrap(_, _, _, _, _, _, _)
Bootstrap(summary, games, labels, fenIndex, restrict, j, ply) ==
    IF j > Len(games) THEN summary
    ELSE LET game == games[j]
             gid == GameId(game)
             eligible == /\ ~IsEvaluated(game)
                         /\ gid # ""
                         /\ OpeningName(GameById(games, gid)[1]) = restrict
             pos == IF eligible
                    THEN PositionsByGame(games, labels, restrict, gid)
                    ELSE <<>>
         IN  IF ply > Len(pos)
             THEN Bootstrap(summary, games, labels, fenIndex, restrict, j + 1, 1)
             ELSE LET I == {i \in DOMAIN fenIndex : fenIndex[i].fen = pos[ply]}
                      agg == fenIndex[CHOOSE i \in I : TRUE]
                  IN  Bootstrap(IF I = {} THEN summary
                                ELSE IF Side(ply) # Side(agg.ply) THEN summary
                                ELSE ApplyMatch(summary, gid, restrict, agg, ply),
                                games, labels, fenIndex, restrict, j, ply + 1)

\* analyzeGames(games, options): the classification, for the server the
\* bootstrap when options.bootstrapOpening is set, and the final sorts. The
\* result is the summary returned, with the raw labels the run collected.
Analyze(client, games, options) ==
    LET st == Classify([client |-> client, summary |-> NewSummary,
                        rawLabels |-> <<>>],
                       games, OrEmpty(options.onlyForUsername), 1, 1)
        restrict == OrEmpty(options.bootstrapOpening)
        s == IF client \/ restrict = "" THEN st.summary
             ELSE Bootstrap(st.summary, games, st.rawLabels,
                            BuildIndex(<<>>, games, st.rawLabels, restrict, 1),
                            restrict, 1, 1)
    IN  [summary |-> [s EXCEPT !.topBlunders = SortByLoss(@),
                               !.topMistakes = SortByLoss(@)],
         rawLabels |-> st.rawLabels]

analyzeGames(games, options) == Analyze(FALSE, games, options).summary

analyzeGamesClient(games, options) == Analyze(TRUE, games, options).summary

(***************************************************************************)
(* prepareMistakeDetails (src/workers/mistakeDetailsCore): the items of    *)
(* the result, for games whose moves carry no best move and no comment     *)
(* (bestSan is then undefined). A requested mistake is [gameId,            *)
(* moveNumber, ply, centipawnLoss, kind].                                  *)
(***************************************************************************)
\* 'rnbqkbnr/pppppppp/8/8/8/8/PPPPPPPP/RNBQKBNR w KQkq - 0 1', also the FEN
\* of new Chess().
StartFen == Fen("start", 0)

\* typeof b.ply === 'number' && b.ply > 0 ? b.ply
\*                                        : Math.max(1, (b.moveNumber - 1) * 2 + 1)
DetailPly(b) ==
    IF b.ply # <<>> /\ b.ply[1] > 0 THEN b.ply[1]
    ELSE Max({1, (b.moveNumber - 1) * 2 + 1})

\* fenAtPly without its entry 0: the moves are replayed up to index maxPly and
\* until one is rejected.
FenAtPly(verbose, maxPly) ==
    LET lim == Min(Len(verbose), maxPly + 1)
        bad == {p \in 1..lim : verbose[p] = "!"}
        k == IF bad = {} THEN lim
             ELSE (CHOOSE p \in bad : \A q \in bad : p <= q) - 1
    IN  [p \in 1..k |-> Fen(verbose[p], p)]

\* The item pushed when the game has no move text or loadPgn threw.
FallbackItem(b, gameId, opening) ==
    [gameId |-> gameId, moveNumber |-> b.moveNumber,
     centipawnLoss |-> b.centipawnLoss, kind |-> b.kind, playedSan |-> <<>>,
     opening |-> opening, fen |-> StartFen]

\* The item of a mistake of a game whose move text loaded. The move played
\* is named by the board it leads to.
DetailItem(b, gameId, opening, verbose, fenAtPly) ==
    LET ply == DetailPly(b)
        idx == Max({0, Min(Len(verbose) - 1, ply - 1)})
        last == IF fenAtPly = <<>> THEN StartFen ELSE fenAtPly[Len(fenAtPly)]
    IN  [gameId |-> gameId, moveNumber |-> b.moveNumber,
         centipawnLoss |-> b.centipawnLoss, kind |-> b.kind,
         playedSan |-> IF idx + 1 \in DOMAIN verbose THEN <<verbose[idx + 1]>>
                       ELSE <<>>,
         opening |-> opening,
         fen |-> IF ply \in DOMAIN fenAtPly THEN fenAtPly[ply] ELSE last]

GroupItemsSkippingUnparsed(game, group) ==
    LET gameId == GameId(game)
        opening == OpeningName(game)
        loaded == loadPgn(game.pgn)
        maxPly == Max({DetailPly(group[k]) : k \in DOMAIN group})
    IN  IF game.pgn = <<>>
        THEN [k \in DOMAIN group |-> FallbackItem(group[k], gameId, opening)]
        ELSE IF loaded.kind = "threw" THEN <<>>
        ELSE [k \in DOMAIN group |->
                 DetailItem(group[k], gameId, opening, loaded.verbose,
                            FenAtPly(loaded.verbose, maxPly))]

\* The items of the mistakes of one game.
GroupItems(game, group) ==
    LET gameId == GameId(game)
        opening == OpeningName(game)
        loaded == loadPgn(game.pgn)
        maxPly == Max({DetailPly(group[k]) : k \in DOMAIN group})
    IN  IF game.pgn = <<>> \/ loaded.kind = "threw"
        THEN [k \in DOMAIN group |-> FallbackItem(group[k], gameId, opening)]
        ELSE [k \in DOMAIN group |->
                 DetailItem(group[k], gameId, opening, loaded.verbose,
                            FenAtPly(loaded.verbose, maxPly))]

\* The loop over mistakesByGame, whose entries are in the order in which the
\* game ids first appear in mistakes: k is the mistake looked at next.
RECURSIVE DetailsLoop(_, _, _)
DetailsLoop(games, mistakes, k) ==
    IF k > Len(mistakes) THEN <<>>
    ELSE LET gid == mistakes[k].gameId
             first == \A i \in 1..(k - 1) : mistakes[i].gameId # gid
             group == SelectSeq(mistakes, LAMBDA m : m.gameId = gid)
         IN  (IF first /\ GameById(games, gid) # <<>>
              THEN GroupItems(GameById(games, gid)[1], group)
              ELSE <<>>)
             \o DetailsLoop(games, mistakes, k + 1)

prepareMistakeDetails(games, mistakes) == DetailsLoop(games, mistakes, 1)

(***************************************************************************)
(* Runs of analyzeGames on the input held in batch.                        *)
(***************************************************************************)
NoBatch == [games |-> <<>>,
            options |-> [onlyForUsername |-> Undefined,
                         bootstrapOpening |-> Undefined],
            cpus |-> 1]

NoOut == [server |-> <<>>, client |-> <<>>, merged |-> <<>>, details |-> <<>>,
          status |-> "idle"]

BatchIdle ==
    /\ batch = NoBatch
    /\ workers = <<>>
    /\ replies = <<>>
    /\ out = NoOut

\* The server's analyzeGames(games, options), called directly.
AnalyzeServer ==
    /\ out.server = <<>>
    /\ out' = [out EXCEPT !.server = <<Analyze(FALSE, batch.games, batch.options)>>]
    /\ UNCHANGED <<batch, workers, replies, cacheVars, reqs, keyVars>>

\* prepareMistakeDetails(games, mistakes) for some requested mistakes.
RequestedMistakes ==
    [gameId : {"g1", "g2"}, moveNumber : {1, 2}, ply : {<<>>, <<2>>, <<5>>},
     centipawnLoss : {<<>>}, kind : {"blunder"}]

PrepareDetails ==
    /\ out.details = <<>>
    /\ \E mistakes \in SeqsUpTo(RequestedMistakes, 2) :
          out' = [out EXCEPT
                     !.details = <<[mistakes |-> mistakes,
                                    items |-> prepareMistakeDetails(batch.games,
                                                                    mistakes)]>>]
    /\ UNCHANGED <<batch, workers, replies, cacheVars, reqs, keyVars>>

\* The client's analyzeGames(games, options).
AnalyzeClient ==
    /\ out.client = <<>>
    /\ out' = [out EXCEPT !.client = <<Analyze(TRUE, batch.games, batch.options)>>]
    /\ UNCHANGED <<batch, workers, replies, cacheVars, reqs, keyVars>>

(***************************************************************************)
(* analyzeWithParallelWorkers (server/src/index.ts) and the worker thread   *)
(* (server/src/worker-thread.js). workers holds, per chunk, the games sent  *)
(* to the worker and its reply (<<>> until it has replied); replies is the  *)
(* order in which the workers replied.                                      *)
(***************************************************************************)
\* deriveUsernameFromGames: the name found in most games, the first one met
\* (white before black, game by game) among those found equally often.
deriveUsernameFromGames(all) ==
    LET names == {all[i].white : i \in DOMAIN all} \cup
                 {all[i].black : i \in DOMAIN all}
        In(n, i) == n \in {all[i].white, all[i].black}
        count(n) == Cardinality({i \in DOMAIN all : In(n, i)})
        first(n) == LET i == CHOOSE i \in DOMAIN all :
                                 In(n, i) /\ \A k \in 1..(i - 1) : ~In(n, k)
                    IN  2 * i + (IF all[i].white = n THEN 0 ELSE 1)
    IN  IF names = {} THEN Undefined
        ELSE CHOOSE n \in names :
                 \A m \in names :
                    \/ count(m) < count(n)
                    \/ count(m) = count(n) /\ first(n) <= first(m)

\* The worker thread on one chunk: the target user is the one of the options
\* or else the one derived from the games of the chunk, and analyzeGames gets
\* no other option.
WorkerAnalyze(games, options) ==
    LET targetUsername == IF OrEmpty(options.onlyForUsername) # ""
                          THEN options.onlyForUsername
                          ELSE deriveUsernameFromGames(games)
    IN  analyzeGames(games, [onlyForUsername |-> targetUsername,
                             bootstrapOpening |-> Undefined])

\* games.filter(g => opening name === openingFilter) when an opening is asked for
WorkingSet(games, options) ==
    LET InOpening(g) == OpeningName(g) = options.bootstrapOpening
    IN  IF OrEmpty(options.bootstrapOpening) # "" THEN SelectSeq(games, InOpening)
        ELSE games

\* chunks.push(workingSet.slice(i, i + chunkSize))
Chunks(workingSet, chunkSize) ==
    [c \in 1..NumChunks(Len(workingSet), chunkSize) |->
        SubSeq(workingSet, (c - 1) * chunkSize + 1,
               Min(c * chunkSize, Len(workingSet)))]

\* await Promise.all(promises): the replies in the order of the chunks.
PromiseAllInReplyOrder(ws, rs) == [k \in DOMAIN rs |-> ws[rs[k]].reply[1]]

PromiseAll(ws, rs) == [c \in DOMAIN ws |-> ws[c].reply[1]]

\* The body of for (const result of workerResults).
MergeResult(merged, result) ==
    [total |-> [inaccuracies |-> merged.total.inaccuracies + result.total.inaccuracies,
                mistakes |-> merged.total.mistakes + result.total.mistakes,
                blunders |-> merged.total.blunders + result.total.blunders],
     mistakesByOpening |->
        [o \in OpeningNames |-> merged.mistakesByOpening[o] + result.mistakesByOpening[o]],
     blundersByOpening |->
        [o \in OpeningNames |-> merged.blundersByOpening[o] + result.blundersByOpening[o]],
     topBlunders |-> merged.topBlunders \o result.topBlunders,
     topMistakes |-> merged.topMistakes \o result.topMistakes]

RECURSIVE MergeLoop(_, _)
MergeLoop(merged, workerResults) ==
    IF workerResults = <<>> THEN merged
    ELSE MergeLoop(MergeResult(merged, Head(workerResults)), Tail(workerResults))

\* mergedSummary: the loop, then the sorts of the two lists.
MergedSummary(workerResults) ==
    LET m == MergeLoop(NewSummary, workerResults)
    IN  [m EXCEPT !.topBlunders = SortByLoss(@), !.topMistakes = SortByLoss(@)]

\* The chunks are made and a worker is started on each.
Dispatch ==
    /\ out.status = "idle"
    /\ LET workingSet == WorkingSet(batch.games, batch.options)
           numWorkers == NumWorkers(batch.cpus,
                                    OrEmpty(batch.options.bootstrapOpening) # "")
           chunks == Chunks(workingSet, ChunkSize(Len(workingSet), numWorkers))
       IN  workers' = [c \in DOMAIN chunks |-> [games |-> chunks[c], reply |-> <<>>]]
    /\ out' = [out EXCEPT !.status = "running"]
    /\ UNCHANGED <<batch, replies, cacheVars, reqs, keyVars>>

\* Worker c analyses its chunk and posts the result.
WorkerMessage(c) ==
    /\ out.status = "running"
    /\ c \in DOMAIN workers
    /\ workers[c].reply = <<>>
    /\ workers' = [workers EXCEPT
                      ![c].reply = <<WorkerAnalyze(workers[c].games, batch.options)>>]
    /\ replies' = Append(replies, c)
    /\ UNCHANGED <<batch, out, cacheVars, reqs, keyVars>>

\* Every promise is resolved: the results are merged.
MergeWorkers ==
    /\ out.status = "running"
    /\ \A c \in DOMAIN workers : workers[c].reply # <<>>
    /\ out' = [out EXCEPT !.merged = <<MergedSummary(PromiseAll(workers, replies))>>,
                          !.status = "merged"]
    /\ UNCHANGED <<batch, workers, replies, cacheVars, reqs, keyVars>>

(***************************************************************************)
(* Specifications.                                                         *)
(***************************************************************************)
NoDataset == [games |-> <<>>,
              options |-> [onlyForUsername |-> Undefined,
                           bootstrapOpening |-> Undefined]]

KeyIdle ==
    /\ dataset = NoDataset
    /\ variant = [games |-> <<>>, options |-> NoDataset.options, how |-> "none"]
    /\ keys = [a |-> <<>>, b |-> <<>>]

\* new SummaryCache(cfg) on an empty directory.
CacheInit ==
    /\ cfg \in [maxMemoryItems : MemoryCapacities, maxDiskBytes : DiskBudgets]
    /\ memory = <<>>
    /\ index = <<>>
    /\ versionMap = <<>>
    /\ dataFile = <<>>
    /\ indexFile = [index |-> <<>>, diskSize |-> 0]
    /\ clock = 0
    /\ ret = [op |-> "new", key |-> "", result |-> Miss, tier |-> "none"]
    /\ evicted = <<>>
    /\ hist = <<>>
    /\ reqs = [r \in Reqs |-> IdleReq]

Init == CacheInit /\ KeyIdle /\ BatchIdle

CacheCall(K, V) ==
    \/ \E key \in K, summary \in Summaries, pv \in V : Save(key, summary, pv)
    \/ \E key \in K : TryGet(key)

Route(R, F) ==
    \/ \E r \in R, games \in RawGamesFields, key \in DigestKeys, force \in F,
          bootstrap \in BOOLEAN, cpus \in CpuCounts :
          \E matching \in 0..games.length :
             ReqArrives(r, games, key, force, bootstrap, matching, cpus)
    \/ \E r \in R : WorkerResult(r)
    \/ \E r \in R, summary \in Summaries : AllWorkersDone(r, summary)
    \/ \E r \in R : WorkerError(r)

Fault ==
    \/ \E i \in 1..MaxSaves : GarbleMember(i)
    \/ \E n \in 0..MaxSaves : TruncateFile(n)
    \/ \E key \in DigestKeys : CorruptEntry(key)

\* The cache under any sequence of save and tryGet.
Next == CacheCall(Keys, PayloadVersions)

Spec == Init /\ [][Next]_vars

\* The server: concurrent requests of /api/analyze on the global cache.
NextRoute == Route(Reqs, BOOLEAN)

SpecRoute == Init /\ [][NextRoute]_vars

\* A cache of one memory item and a budget that is never reached, with a
\* faulty disk, and one request that looks its key up.
InitFault == Init /\ cfg = [maxMemoryItems |-> 1, maxDiskBytes |-> 10000]

NextFault ==
    \/ \E key \in DigestKeys, summary \in Summaries : Save(key, summary, <<>>)
    \/ Fault
    \/ Route({"r1"}, {FALSE})

SpecFault == InitFault /\ [][NextFault]_vars

\* The key function on every dataset of the bounds and on its variants.
InitKey ==
    /\ CacheInit
    /\ cfg = [maxMemoryItems |-> 1, maxDiskBytes |-> 10000]
    /\ dataset \in Datasets
    /\ variant = [games |-> dataset.games, options |-> dataset.options,
                  how |-> "none"]
    /\ keys = [a |-> <<>>, b |-> <<>>]
    /\ BatchIdle

NextKey ==
    \/ ComputeKey
    \/ \E p \in Perms(Len(dataset.games)) : Permute(p)
    \/ \E i \in DOMAIN dataset.games, id \in RawIds : ChangeId(i, id)
    \/ \E i \in DOMAIN dataset.games, name \in RawOpenings : ChangeOpening(i, name)
    \/ \E i \in DOMAIN dataset.games, analysis \in RawAnalyses :
          ChangeAnalysis(i, analysis)
    \/ \E i \in DOMAIN dataset.games : DropGame(i)
    \/ \E user \in RawUsers : ChangeUser(user)
    \/ \E name \in RawBootstraps : ChangeBootstrap(name)

SpecKey == InitKey /\ [][NextKey]_vars

\* The cache under saves, tryGets and saves that the end of the process
\* interrupts, each followed by a new instance on the same directory.
NextCrash ==
    \/ CacheCall(DigestKeys, {<<>>})
    \/ \E key \in DigestKeys, summary \in Summaries, torn \in BOOLEAN :
          CrashInSaveAndReopen(key, summary, torn)

SpecCrash == Init /\ [][NextCrash]_vars

\* The cache under saves and tryGets of one owner after another: between two
\* calls the owner may be replaced by a new instance on the same directory.
NextReopen ==
    \/ CacheCall(DigestKeys, {<<>>})
    \/ Reopen

SpecReopen == Init /\ [][NextReopen]_vars

\* The classifiers on one game whose moves carry evaluations and no
\* judgment, with and without a target user.
EvalScores == {<<>>, <<0>>, <<59>>, <<60>>, <<149>>, <<150>>, <<249>>, <<250>>}

MateFlags == {<<>>, <<3>>}

EvalMoves == [ply : {<<>>}, judgment : {<<>>}, cp : EvalScores, mate : MateFlags]

InitClassify ==
    /\ CacheInit
    /\ cfg = [maxMemoryItems |-> 1, maxDiskBytes |-> 10000]
    /\ KeyIdle
    /\ \E analysis \in SeqsUpTo(EvalMoves, MaxMoves),
          user \in {Undefined, "a", "b"} :
          batch = [games |-> <<[id |-> "g1", opening |-> "X", white |-> "a",
                               black |-> "b", analysis |-> analysis,
                               pgn |-> <<>>]>>,
                   options |-> [onlyForUsername |-> user,
                                bootstrapOpening |-> Undefined],
                   cpus |-> 1]
    /\ workers = <<>>
    /\ replies = <<>>
    /\ out = NoOut

NextClassify == AnalyzeServer \/ AnalyzeClient

SpecClassify == InitClassify /\ [][NextClassify]_vars

\* The classifiers on one game whose moves carry an evaluation and, some of
\* them, a judgment with or without a centipawn loss.
Judgments == {<<>>} \cup {<<[name |-> kind, cp |-> cp]>> :
                            kind \in Kinds, cp \in {<<>>, <<120>>}}

JudgedMoves == [ply : {<<>>}, judgment : Judgments, cp : {<<0>>, <<300>>},
                mate : {<<>>}]

InitJudged ==
    /\ CacheInit
    /\ cfg = [maxMemoryItems |-> 1, maxDiskBytes |-> 10000]
    /\ KeyIdle
    /\ \E analysis \in SeqsUpTo(JudgedMoves, MaxMoves),
          user \in {Undefined, "a"} :
          batch = [games |-> <<[id |-> "g1", opening |-> "X", white |-> "a",
                               black |-> "b", analysis |-> analysis,
                               pgn |-> <<>>]>>,
                   options |-> [onlyForUsername |-> user,
                                bootstrapOpening |-> Undefined],
                   cpus |-> 1]
    /\ workers = <<>>
    /\ replies = <<>>
    /\ out = NoOut

SpecJudged == InitJudged /\ [][NextClassify]_vars

\* The server's analyzeGames with a bootstrap opening on two games, each with
\* or without judgments and with or without move text. Two move texts share
\* the position after the first ply and differ from the second ply on.
PgnLines ==
    {<<>>} \cup {[p \in 1..MaxMoves |-> IF p = 1 THEN "s" ELSE v] : v \in {"s", "t"}}

\* No analysis, moves without evaluation, or moves of which one is judged.
BootAnalyses ==
    LET bare == [ply |-> <<>>, judgment |-> <<>>, cp |-> <<>>, mate |-> <<>>]
    IN  {<<>>, [i \in 1..MaxMoves |-> bare]} \cup
        {[i \in 1..MaxMoves |->
             IF i = at THEN [bare EXCEPT !.judgment = <<[name |-> kind, cp |-> cp]>>]
             ELSE bare] :
           at \in 1..MaxMoves, kind \in Kinds, cp \in {<<>>, <<300>>}}

BootGames(id) ==
    [id : {id}, opening : {"X", "Y"}, white : {"a"}, black : {"b"},
     analysis : BootAnalyses, pgn : PgnLines]

InitBootstrap ==
    /\ CacheInit
    /\ cfg = [maxMemoryItems |-> 1, maxDiskBytes |-> 10000]
    /\ KeyIdle
    /\ \E g1 \in BootGames("g1"), g2 \in BootGames("g2"),
          name \in {Undefined, "X", "Y"} :
          batch = [games |-> <<g1, g2>>,
                   options |-> [onlyForUsername |-> Undefined,
                                bootstrapOpening |-> name],
                   cpus |-> 1]
    /\ workers = <<>>
    /\ replies = <<>>
    /\ out = NoOut

SpecBootstrap == InitBootstrap /\ [][AnalyzeServer]_vars

\* The server's analyzeGames with a bootstrap opening on a game with one
\* labelled move, whose ply is left out or stated (0, 1 or 2), and a second
\* game whose only move has no evaluation, a centipawn score, a mate distance
\* or a label; the move texts have up to two plies.
PositionLines == UNION {[1..n -> {"s", "se", "t"}] : n \in 0..2}

LabelledGames ==
    {[id |-> "g1", opening |-> "X", white |-> "a", black |-> "b",
      analysis |-> <<[ply |-> ply, mate |-> <<>>, cp |-> <<>>,
                      judgment |-> <<[name |-> "blunder", cp |-> <<300>>]>>]>>,
      pgn |-> pgn] :
        ply \in {<<>>, <<0>>, <<1>>, <<2>>}, pgn \in PositionLines}

OtherGames ==
    {[id |-> "g2", opening |-> "X", white |-> "a", black |-> "b",
      analysis |-> <<mv>>, pgn |-> pgn] :
        mv \in [ply : {<<>>}, mate : {<<>>, <<3>>}, cp : {<<>>, <<0>>},
                judgment : {<<>>, <<[name |-> "mistake", cp |-> <<>>]>>}],
        pgn \in PositionLines}

InitPositions ==
    /\ CacheInit
    /\ cfg = [maxMemoryItems |-> 1, maxDiskBytes |-> 10000]
    /\ KeyIdle
    /\ \E g1 \in LabelledGames, g2 \in OtherGames :
          batch = [games |-> <<g1, g2>>,
                   options |-> [onlyForUsername |-> Undefined,
                                bootstrapOpening |-> "X"],
                   cpus |-> 1]
    /\ workers = <<>>
    /\ replies = <<>>
    /\ out = NoOut

SpecPositions == InitPositions /\ [][AnalyzeServer]_vars

\* analyzeGames with a bootstrap opening and prepareMistakeDetails on two
\* games of the opening: the first with any move text of up to two plies,
\* loadable or not, the second with a move text of two plies that loads;
\* each has one move, labelled or without evaluation.
DetailLines == UNION {[1..n -> {"s", "t", "?", "!"}] : n \in 0..2}

DetailGames(id, lines) ==
    {[id |-> id, opening |-> "X", white |-> "a", black |-> "b",
      analysis |-> <<[ply |-> <<>>, mate |-> <<>>, cp |-> <<>>,
                      judgment |-> judgment]>>,
      pgn |-> pgn] :
        judgment \in {<<>>, <<[name |-> "blunder", cp |-> <<300>>]>>},
        pgn \in lines}

InitDetails ==
    /\ CacheInit
    /\ cfg = [maxMemoryItems |-> 1, maxDiskBytes |-> 10000]
    /\ KeyIdle
    /\ \E g1 \in DetailGames("g1", DetailLines),
          g2 \in DetailGames("g2", {<<"s", "t">>}) :
          batch = [games |-> <<g1, g2>>,
                   options |-> [onlyForUsername |-> Undefined,
                                bootstrapOpening |-> "X"],
                   cpus |-> 1]
    /\ workers = <<>>
    /\ replies = <<>>
    /\ out = NoOut

NextDetails == AnalyzeServer \/ PrepareDetails

SpecDetails == InitDetails /\ [][NextDetails]_vars

\* analyzeWithParallelWorkers on up to MaxBatch games of two openings, played
\* by a and b or by c and d, each with a blunder of the first or of the second
\* player or with none, next to analyzeGames on the same games and options.
BatchAnalyses ==
    LET eval(cp) == [ply |-> <<>>, judgment |-> <<>>, cp |-> <<cp>>, mate |-> <<>>]
    IN  {<<eval(0), eval(0)>>, <<eval(0), eval(250)>>,
         <<eval(0), eval(0), eval(250)>>}

BatchGames ==
    {[id |-> "", opening |-> o, white |-> w, black |-> IF w = "a" THEN "b" ELSE "d",
      analysis |-> a, pgn |-> <<>>] :
        o \in {"X", "Y"}, w \in {"a", "c"}, a \in BatchAnalyses}

InitBatch ==
    /\ CacheInit
    /\ cfg = [maxMemoryItems |-> 1, maxDiskBytes |-> 10000]
    /\ KeyIdle
    /\ \E n \in 1..MaxBatch :
          \E games \in [1..n -> BatchGames], user \in {Undefined, "a"},
             name \in {Undefined, "X"}, cpus \in CpuCounts :
             batch = [games |-> [i \in 1..n |->
                                   [games[i] EXCEPT !.id = "g" \o NumStr(i)]],
                      options |-> [onlyForUsername |-> user,
                                   bootstrapOpening |-> name],
                      cpus |-> cpus]
    /\ workers = <<>>
    /\ replies = <<>>
    /\ out = NoOut

\* analyzeWithParallelWorkers on lists of up to MaxSplit games without
\* evaluations, on machines of 1 to MaxCpus CPUs and of 16.
InitSplit ==
    /\ CacheInit
    /\ cfg = [maxMemoryItems |-> 1, maxDiskBytes |-> 10000]
    /\ KeyIdle
    /\ \E n \in 1..MaxSplit, cpus \in (1..MaxCpus) \cup {16} :
          batch = [games |-> [i \in 1..n |->
                                [id |-> "g" \o NumStr(i), opening |-> "X",
                                 white |-> "a", black |-> "b",
                                 analysis |-> <<>>, pgn |-> <<>>]],
                   options |-> [onlyForUsername |-> "a",
                                bootstrapOpening |-> Undefined],
                   cpus |-> cpus]
    /\ workers = <<>>
    /\ replies = <<>>
    /\ out = NoOut

\* analyzeWithParallelWorkers and analyzeGames on up to MaxBatch games of one
\* opening with the same two plies of move text, each ply labelled a blunder
\* of 300, of 100 or of no stated loss, or not labelled; a game without any
\* label is unevaluated and is bootstrapped when the opening is requested.
RankedAnalyses ==
    LET bare == [ply |-> <<>>, judgment |-> <<>>, cp |-> <<>>, mate |-> <<>>]
        moves == {bare} \cup
                 {[bare EXCEPT !.judgment = <<[name |-> "blunder", cp |-> cp]>>] :
                     cp \in {<<>>, <<100>>, <<300>>}}
    IN  [1..2 -> moves]

InitRanked ==
    /\ CacheInit
    /\ cfg = [maxMemoryItems |-> 1, maxDiskBytes |-> 10000]
    /\ KeyIdle
    /\ \E n \in 1..MaxBatch :
          \E analyses \in [1..n -> RankedAnalyses], name \in {Undefined, "X"},
             cpus \in {1, 2} :
             batch = [games |-> [i \in 1..n |->
                                   [id |-> "g" \o NumStr(i), opening |-> "X",
                                    white |-> "a", black |-> "b",
                                    analysis |-> analyses[i],
                                    pgn |-> <<"s", "t">>]],
                      options |-> [onlyForUsername |-> Undefined,
                                   bootstrapOpening |-> name],
                      cpus |-> cpus]
    /\ workers = <<>>
    /\ replies = <<>>
    /\ out = NoOut

NextBatch ==
    \/ Dispatch
    \/ \E c \in DOMAIN workers : WorkerMessage(c)
    \/ MergeWorkers
    \/ AnalyzeServer

SpecBatch == InitBatch /\ [][NextBatch]_vars

SpecSplit == InitSplit /\ [][NextBatch]_vars

SpecRanked == InitRanked /\ [][NextBatch]_vars

\* analyzeWithParallelWorkers on the games and options of InitBootstrap.
SpecBootBatch == InitBootstrap /\ [][NextBatch]_vars

(***************************************************************************)
(* The dataset key (SpecKey).                                              *)
(***************************************************************************)
KeysComputed == keys.a # <<>> /\ keys.b # <<>>

TuplesOf(games) == [i \in DOMAIN games |-> GameTuple(games[i])]

\* C1: for every game list G, every permutation P of G and every options
\* object O, computeKeyFromDataset(P, O) = computeKeyFromDataset(G, O), also
\* when several games carry the same id or no id.
C1_KeyInvariantUnderPermutation ==
    (KeysComputed /\ variant.how = "permute") => keys.b = keys.a

\* C2 as stated: two inputs that differ in a game's id, opening name or
\* evaluated-move count, or in the value of onlyForUsername or
\* bootstrapOpening, get different keys.
C2_RawDifferenceChangesKey ==
    (/\ KeysComputed
     /\ \/ variant.how \in {"id", "opening", "user", "bootstrap"}
        \/ /\ variant.how = "analysis"
           /\ \E i \in DOMAIN dataset.games :
                 AnalysisLength(dataset.games[i]) # AnalysisLength(variant.games[i]))
    => keys.b # keys.a

\* The two inputs differ after the normalisation the key function applies: in
\* the bag of (id or '', opening name or 'Unknown', analysis length) tuples,
\* or in an option read as '' when it is missing.
NormalisedDiffer ==
    \/ ~SameBag(TuplesOf(dataset.games), TuplesOf(variant.games))
    \/ OrEmpty(dataset.options.onlyForUsername)
           # OrEmpty(variant.options.onlyForUsername)
    \/ OrEmpty(dataset.options.bootstrapOpening)
           # OrEmpty(variant.options.bootstrapOpening)

\* C2 (amended): two inputs that differ in a game's normalised id, normalised
\* opening name or analysis length, in the number of games, or in the
\* normalised value of onlyForUsername or bootstrapOpening, get different keys.
C2_NormalisedDifferenceChangesKey ==
    (KeysComputed /\ NormalisedDiffer) => keys.b # keys.a

\* C2 witness: the same non-empty game list keyed with onlyForUsername 'a' and
\* with 'b' got two different keys.
C2_Witness ==
    /\ KeysComputed
    /\ variant.how = "user"
    /\ dataset.games # <<>>
    /\ dataset.options.onlyForUsername = "a"
    /\ variant.options.onlyForUsername = "b"
    /\ keys.a # keys.b

(***************************************************************************)
(* The cache (Spec).                                                       *)
(***************************************************************************)
SavesOf(key) == SelectSeq(hist, LAMBDA h : h.key = key)

NoVersionGiven == \A i \in DOMAIN hist : ~hist[i].given

\* The value the latest save of key stored.
Latest(key) ==
    LET s == SavesOf(key)
    IN  [summary |-> s[Len(s)].summary, createdAt |-> s[Len(s)].createdAt,
         version |-> s[Len(s)].version]

TryGetNow(key) ==
    tryGet(memory, LruMax(cfg.maxMemoryItems), index, dataFile, key)

\* C3: on one cache, whatever saves and tryGets happen in between (saves of
\* other keys and saves that trigger disk eviction included), the versions
\* assigned to successive saves of a key are strictly increasing.
C3_VersionsStrictlyIncrease ==
    NoVersionGiven =>
        \A key \in Keys :
            LET s == SavesOf(key)
            IN  \A i \in 1..(Len(s) - 1) : s[i].version < s[i + 1].version

\* C4: the first save of a key stores version 1, each later save of it (with
\* no payload.version) stores the previous version plus one, and tryGet
\* returns the stored version.
C4_VersionsCountFromOne ==
    NoVersionGiven =>
        \A key \in Keys :
            LET s == SavesOf(key)
            IN  /\ \A i \in DOMAIN s : s[i].version = i
                /\ (s # <<>> /\ TryGetNow(key).result.kind = "hit")
                      => TryGetNow(key).result.value.version = Len(s)

C6_MemoryWithinCapacity == Len(memory) <= LruMax(cfg.maxMemoryItems)

\* C7: every key of the index is returned by tryGet, whether or not the memory
\* tier still holds it (memory eviction does not touch the log or the index).
C7_IndexedKeysAreReturned ==
    \A key \in Keys : IndexHas(index, key) => TryGetNow(key).result.kind = "hit"

\* C7 witness: more keys are indexed than the memory tier holds, one of them
\* was evicted from memory, and the last call was a tryGet served from disk.
C7_Witness ==
    /\ Len(index) > LruMax(cfg.maxMemoryItems)
    /\ \E key \in Keys : IndexHas(index, key) /\ ~MapHas(memory, key)
    /\ ret.op = "tryGet" /\ ret.tier = "disk" /\ ret.result.kind = "hit"

\* C8: whenever tryGet answers for a key, from memory or from disk, it returns
\* the summary, createdAt and version of the latest save of that key.
C8_ReturnsLatestSave ==
    /\ \A key \in Keys :
          (MapHas(memory, key) \/ IndexHas(index, key))
              => TryGetNow(key).result = Hit(Latest(key))
    /\ (ret.op = "tryGet" /\ ret.result.kind = "hit")
          => ret.result = Hit(Latest(ret.key))

\* C8 witness: a key that the memory tier had dropped was read back from disk
\* with the value of its save, a summary with an optional property set, while
\* the other key is held in memory.
C8_Witness ==
    /\ ret.op = "tryGet" /\ ret.tier = "disk"
    /\ ret.result = Hit(Latest(ret.key))
    /\ ret.result.value.summary.worst # <<>>
    /\ Len(hist) = 2 /\ hist[1].key # hist[2].key

\* C22: the data log only grows at its end, whatever a save or an eviction
\* does: its previous members are a prefix of it; every index entry lies
\* inside the log and designates the bytes that the latest save of its key
\* wrote.
C22_LogIsAppendOnly ==
    /\ [](\A i \in DOMAIN index :
             LET e == index[i]
                 l == Latest(e.key)
             IN  /\ 0 <= e.offset
                 /\ e.offset + e.length <= FileSize(dataFile)
                 /\ ReadMember(dataFile, e.offset, e.length)
                       = EntryJson(e.key, l.createdAt, l.version, l.summary))
    /\ [][/\ Len(dataFile) <= Len(dataFile')
          /\ SubSeq(dataFile', 1, Len(dataFile)) = dataFile]_vars

\* C22 witness: a key was saved twice and its index entry designates the
\* second member of the log, behind the bytes of its first save.
C22_Witness ==
    /\ Len(dataFile) = 2
    /\ \E i \in DOMAIN index :
          /\ index[i].offset = dataFile[1].length
          /\ Len(SavesOf(index[i].key)) = 2
          /\ dataFile[1].text # dataFile[2].text

\* C39: once the disk eviction has removed a key from the index, tryGet of
\* the key returns a miss until the key is saved again: an evicted entry is
\* not served from the memory tier.
C39_EvictedKeyIsAMiss ==
    [][\A key \in Keys :
          (/\ ret'.op = "tryGet"
           /\ ret'.key = key
           /\ SavesOf(key) # <<>>
           /\ ~IndexHas(index, key))
          => ret'.result = Miss
      ]_vars

(***************************************************************************)
(* The cache on a faulty disk (SpecFault).                                 *)
(***************************************************************************)
\* C9: tryGet never throws: when the index entry is unusable or the bytes it
\* names cannot be read, decompressed or parsed, it returns a miss, and a
\* request whose lookup failed that way goes on to the workers: it is answered
\* from a recomputation, or with the error of a worker it started.
C9_FailedReadIsAMiss ==
    /\ ret.result.kind # "threw"
    /\ \A key \in DigestKeys :
          /\ TryGetNow(key).result.kind # "threw"
          /\ TryGetNow(key).tier = "failed" => TryGetNow(key).result = Miss
    /\ \A r \in Reqs :
          reqs[r].lookup = "failed" =>
              \/ reqs[r].pc = "workers" /\ reqs[r].started > 0
              \/ /\ reqs[r].pc = "done"
                 /\ reqs[r].resp.status = "ok"
                 /\ ~reqs[r].resp.cached
                 /\ reqs[r].saved # <<>>
              \/ /\ reqs[r].pc = "done"
                 /\ reqs[r].resp.status = "error"
                 /\ reqs[r].started > 0

\* C9 witness: a member of the log is garbled, the lookup of a request for the
\* key it belongs to returned a miss from the catch, and the request is now
\* waiting for its workers.
C9_Witness ==
    /\ \E i \in DOMAIN dataFile : dataFile[i].text = Garbage
    /\ ret.op = "tryGet" /\ ret.tier = "failed" /\ ret.result = Miss
    /\ reqs["r1"].lookup = "failed"
    /\ reqs["r1"].key = ret.key
    /\ reqs["r1"].pc = "workers"
    /\ reqs["r1"].started > 0

(***************************************************************************)
(* Interrupted saves (SpecCrash).                                          *)
(***************************************************************************)
\* A save was interrupted in this step and the directory reopened.
Reopened == ret'.op = "reopen" /\ dataFile' # dataFile

\* C23: after a save that was interrupted behind the append to the log and
\* before index.json was completely written, the reopened cache returns, for
\* every key that was indexed before, the summary and version saved before.
C23_InterruptedSaveLosesNothing ==
    [][Reopened =>
         \A i \in DOMAIN index :
            LET e == index[i]
            IN  tryGet(memory', LruMax(cfg.maxMemoryItems), index', dataFile',
                       e.key).result
                  = Hit([summary |-> EntrySummary(ReadMember(dataFile, e.offset,
                                                             e.length)),
                         createdAt |-> e.createdAt, version |-> e.version])]_vars

(***************************************************************************)
(* A new owner of the directory (SpecReopen).                              *)
(***************************************************************************)
\* C38: a SummaryCache constructed on a directory written by an earlier
\* instance returns from tryGet, for every key of the index, the summary and
\* the version the earlier instance returned (those of the key's latest
\* save), and a later save of such a key gets a version greater than the
\* persisted one.
C38_NewOwnerReadsWhatWasWritten ==
    [][ret'.op = "open" =>
          \A key \in DigestKeys :
             IndexHas(indexFile.index, key) =>
                LET max == LruMax(cfg.maxMemoryItems)
                    before == tryGet(memory, max, index, dataFile, key).result
                    after == tryGet(memory', max, index', dataFile', key).result
                    persisted == IndexGet(indexFile.index, key).version
                IN  /\ after.kind = "hit"
                    /\ after = before
                    /\ after.value = Latest(key)
                    /\ after.value.version = persisted
                    /\ \A summary \in Summaries, now \in Nows :
                          save(Cache', max, cfg.maxDiskBytes, key, summary,
                               <<>>, now).version > persisted
      ]_vars

\* A new owner has opened a directory whose index holds a key saved twice
\* with a summary that carries an optional value, and holds nothing in memory.
C38_Witness ==
    /\ ret.op = "open"
    /\ memory = <<>>
    /\ \E key \in DigestKeys :
          /\ IndexHas(index, key)
          /\ IndexGet(index, key).version = 3
          /\ getVersion(versionMap, key) = 3
          /\ Latest(key).summary.worst # <<>>

(***************************************************************************)
(* The route (SpecRoute).                                                  *)
(***************************************************************************)
\* C10: a forced request does no cache lookup and is not answered from the
\* cache, and its save stores a version greater than the version the cache
\* held for the key when the request arrived.
C10_ForcedSaveBumpsVersion ==
    \A r \in Reqs :
        (reqs[r].force /\ reqs[r].pc # "idle") =>
            /\ reqs[r].lookup = "none"
            /\ ~reqs[r].resp.cached
            /\ (reqs[r].saved # <<>> /\ reqs[r].before # <<>>)
                  => reqs[r].saved[1] > reqs[r].before[1]

\* The request whose step it is.
Arrives(r) == reqs[r].pc = "idle" /\ reqs'[r].pc # "idle"

\* C11: without the force flag, when tryGet(key) hits, the request is answered
\* at once with the summary, createdAt and version tryGet returned (those of
\* the latest save of the key), no worker is started and nothing is saved:
\* the index, the log, index.json and the version counters stay as they are.
C11_HitIsServedFromCache ==
    [][\A r \in Reqs :
          (/\ Arrives(r)
           /\ reqs'[r].games = GamesChecks(ArrayOf(1))
           /\ ~reqs'[r].force
           /\ TryGetNow(reqs'[r].key).result.kind = "hit")
          => LET hit == TryGetNow(reqs'[r].key).result.value
             IN  /\ reqs'[r].pc = "done"
                 /\ reqs'[r].started = 0
                 /\ reqs'[r].saved = <<>>
                 /\ reqs'[r].resp =
                        [status |-> "ok", cached |-> TRUE,
                         summary |-> <<hit.summary>>,
                         createdAt |-> hit.createdAt, version |-> hit.version]
                 /\ hit = Latest(reqs'[r].key)
                 /\ UNCHANGED <<index, versionMap, dataFile, indexFile, clock,
                                evicted, hist>>]_vars

\* C11 witness: one request computed and saved a summary and the other, not
\* forced and for the same key, was answered from the cache with the version
\* that save stored.
C11_Witness ==
    /\ Len(hist) = 1
    /\ \E r \in Reqs :
          /\ reqs[r].pc = "done"
          /\ ~reqs[r].force
          /\ reqs[r].resp.cached
          /\ reqs[r].started = 0
          /\ reqs[r].key = hist[1].key
          /\ reqs[r].resp.summary = <<hist[1].summary>>
          /\ reqs[r].resp.version = hist[1].version

\* C12: a request whose games field is missing, no array or an empty array is
\* answered with an error at once: no worker is started and the cache is
\* neither read nor written.
C12_InvalidGamesRejected ==
    [][\A r \in Reqs :
          (/\ Arrives(r)
           /\ \/ ~reqs'[r].games.truthy
              \/ ~reqs'[r].games.isArray
              \/ reqs'[r].games.empty)
          => /\ reqs'[r].pc = "done"
             /\ reqs'[r].resp.status = "rejected"
             /\ reqs'[r].resp.summary = <<>>
             /\ reqs'[r].started = 0
             /\ reqs'[r].saved = <<>>
             /\ UNCHANGED cacheVars]_vars

\* C12 witness: with a summary in the cache, a request with an empty games
\* array was rejected.
C12_Witness ==
    /\ hist # <<>>
    /\ \E r \in Reqs :
          /\ reqs[r].pc = "done"
          /\ reqs[r].games = [truthy |-> TRUE, isArray |-> TRUE, empty |-> TRUE]
          /\ reqs[r].resp.status = "rejected"

\* C13: when a worker of a request replies with an error or crashes, the
\* request is answered with an error and no summary and saves nothing; the
\* steps of such a request (its lookup, the replies of its other workers, the
\* failure) leave both tiers, the log and the version counters as they were.
C13_WorkerFailureFailsBatch ==
    /\ [](\A r \in Reqs :
            reqs[r].failed =>
                /\ reqs[r].pc = "done"
                /\ reqs[r].resp.status = "error"
                /\ reqs[r].resp.summary = <<>>
                /\ reqs[r].saved = <<>>)
    /\ [][\A r \in Reqs :
            (reqs'[r] # reqs[r] /\ (reqs'[r].pc = "workers" \/ reqs'[r].failed))
            => UNCHANGED <<memory, index, versionMap, dataFile, indexFile,
                           clock, evicted, hist>>]_vars

\* C13 witness: a request started two workers, one replied with its result
\* and the other failed, while the cache holds a summary of another request.
C13_Witness ==
    /\ hist # <<>>
    /\ \E r \in Reqs :
          /\ reqs[r].failed
          /\ reqs[r].started = 2
          /\ reqs[r].resp.status = "error"

\* C24: analyzeWithParallelWorkers completes, with the merged summary or with
\* a failure, only in the step in which the last worker still running
\* replies: no worker is left without a reply when the run ends.
C24_CompletesAfterEveryReply ==
    [][\A r \in Reqs :
          (reqs[r].pc = "workers" /\ reqs'[r].pc = "done")
              => reqs[r].pending = 1]_vars

\* The request ends in this step with the summary of its workers.
Completes(r) ==
    /\ reqs[r].pc # "done"
    /\ reqs'[r].pc = "done"
    /\ reqs'[r].resp.status = "ok"
    /\ ~reqs'[r].resp.cached

\* C28: the cache changes only in the step in which a request arrives (the
\* lookup, before any worker is dispatched) and in the step in which a
\* request completes with the merged summary, after the last worker replied;
\* the completion of a miss or of a forced run is exactly one save, of the
\* key of the request, and a step in which a worker replies without
\* completing the request leaves the cache alone.
C28_CacheTouchedBeforeAndAfterWorkers ==
    [][/\ cacheVars' # cacheVars =>
             \E r \in Reqs : Arrives(r) \/ Completes(r)
       /\ hist' # hist => \E r \in Reqs : Completes(r)
       /\ \A r \in Reqs :
             Completes(r) =>
                /\ reqs[r].pc = "workers" => reqs[r].pending = 1
                /\ Len(hist') = Len(hist) + 1
                /\ hist'[Len(hist')].key = reqs'[r].key
                /\ ret'.op = "save"
       /\ \A r \in Reqs :
             (reqs[r].pc = "workers" /\ reqs'[r].pending < reqs[r].pending
                                     /\ ~Completes(r)) =>
                UNCHANGED cacheVars
      ]_vars

\* C28 witness: a request that missed the cache had two workers, both
\* replied, and its summary was saved once.
C28_Witness ==
    \E r \in Reqs :
        /\ reqs[r].pc = "done"
        /\ reqs[r].started = 2
        /\ reqs[r].resp.status = "ok"
        /\ ~reqs[r].resp.cached
        /\ reqs[r].saved # <<>>
        /\ Len(SavesOf(reqs[r].key)) = 1

\* C37: the meta.version of the response to a miss or a forced run is the
\* version under which the summary was saved in that step, which is the
\* version a tryGet of the key then returns.
C37_ResponseVersionIsSavedVersion ==
    [][\A r \in Reqs :
          Completes(r) =>
             /\ <<reqs'[r].resp.version>> = reqs'[r].saved
             /\ <<reqs'[r].resp.version>> =
                   StoredVersion(memory', index', reqs'[r].key)
      ]_vars

(***************************************************************************)
(* The classifiers (SpecClassify).                                         *)
(***************************************************************************)
\* The game of the run, its evaluation at and before index i, and whether the
\* move of ply i is left out because another side than the target's made it.
TheGame == batch.games[1]

Curr(i) == TheGame.analysis[i]

Prev(i) == TheGame.analysis[i - 1]

Filtered(i) ==
    NotTargetMove(TargetSide(TheGame, OrEmpty(batch.options.onlyForUsername)), i)

\* The events of ply i, as [kind, loss]: the server's labels and the client's
\* topMistakes entries; and the topBlunders entries of ply i.
ServerEventsAt(i) ==
    LET ls == SelectSeq(out.server[1].rawLabels, LAMBDA l : l.ply = i)
    IN  [k \in DOMAIN ls |-> [kind |-> ls[k].kind, loss |-> ls[k].cp]]

ClientEventsAt(i) ==
    LET es == SelectSeq(out.client[1].summary.topMistakes, LAMBDA e : e.ply = i)
    IN  [k \in DOMAIN es |-> [kind |-> es[k].kind[1], loss |-> es[k].centipawnLoss]]

TopBlundersAt(view, i) ==
    LET es == SelectSeq(view.summary.topBlunders, LAMBDA e : e.ply = i)
    IN  [k \in DOMAIN es |-> es[k].centipawnLoss]

\* The events a ply with loss L has to yield.
Graded(events, L) ==
    /\ L >= 250 <=> events = <<[kind |-> "blunder", loss |-> <<L>>]>>
    /\ (150 <= L /\ L < 250) <=> events = <<[kind |-> "mistake", loss |-> <<L>>]>>
    /\ (60 <= L /\ L < 150) <=> events = <<[kind |-> "inaccuracy", loss |-> <<L>>]>>
    /\ L < 60 <=> events = <<>>

\* C16: in the derived path of either classifier, a ply the classifier
\* attributes the loss L to yields exactly one blunder iff L >= 250 (and then
\* an entry of topBlunders), one mistake iff 150 <= L < 250, one inaccuracy
\* iff 60 <= L < 150, and no event iff L < 60.
C16_ThresholdsDecideSeverity ==
    \A i \in 2..Len(TheGame.analysis) :
        ~Filtered(i) =>
            /\ out.server # <<>> =>
                  LET L == AbsDelta(Prev(i), Curr(i))
                  IN  /\ Graded(ServerEventsAt(i), L)
                      /\ L >= 250 <=> TopBlundersAt(out.server[1], i) = <<(<<L>>)>>
                      /\ L < 250 <=> TopBlundersAt(out.server[1], i) = <<>>
            /\ out.client # <<>> =>
                  LET L == lossForMover(Prev(i), Curr(i), i)
                  IN  /\ Graded(ClientEventsAt(i), L)
                      /\ L >= 250 <=> TopBlundersAt(out.client[1], i) = <<(<<L>>)>>
                      /\ L < 250 <=> TopBlundersAt(out.client[1], i) = <<>>

\* C16 witness: both classifiers ran on evaluations 250, 0, 59: ply 2 has a
\* loss of 250 for its mover and is a blunder for both, ply 3 has a change of
\* 59 and has no event.
C16_Witness ==
    /\ out.server # <<>> /\ out.client # <<>>
    /\ batch.options.onlyForUsername = Undefined
    /\ Len(TheGame.analysis) = 3
    /\ \A i \in 1..3 : Curr(i).mate = <<>>
    /\ Curr(1).cp = <<250>> /\ Curr(2).cp = <<0>> /\ Curr(3).cp = <<59>>
    /\ ServerEventsAt(2) = <<[kind |-> "blunder", loss |-> <<250>>]>>
    /\ ServerEventsAt(3) = <<>>
    /\ ClientEventsAt(3) = <<>>

\* The loss of the mover of ply i: the drop of the evaluation for the first
\* side (odd ply), its rise for the second side (even ply), never negative.
MoverLoss(i) ==
    LET delta == Curr(i).cp[1] - Prev(i).cp[1]
    IN  IF i % 2 = 1 THEN (IF -delta > 0 THEN -delta ELSE 0)
        ELSE (IF delta > 0 THEN delta ELSE 0)

\* C17: in the derived path of either classifier the loss attributed to ply i
\* is max(0, -(eval(i) - eval(i-1))) on an odd ply and
\* max(0, eval(i) - eval(i-1)) on an even ply: a move that leaves the mover's
\* evaluation unchanged or better yields no event, and the events of a ply are
\* those of that loss.
C17_LossIsMoverCentric ==
    \A i \in 2..Len(TheGame.analysis) :
        (/\ ~Filtered(i)
         /\ Prev(i).cp # <<>> /\ Curr(i).cp # <<>>
         /\ Prev(i).mate = <<>> /\ Curr(i).mate = <<>>)
        => /\ out.server # <<>> => Graded(ServerEventsAt(i), MoverLoss(i))
           /\ out.client # <<>> => Graded(ClientEventsAt(i), MoverLoss(i))

\* C18: neither classifier emits an event for a ply whose evaluation or whose
\* preceding evaluation carries a mate distance, with or without a centipawn
\* score next to it.
C18_MateEvaluationsGiveNoEvent ==
    \A i \in 2..Len(TheGame.analysis) :
        (Prev(i).mate # <<>> \/ Curr(i).mate # <<>>)
        => /\ out.server # <<>> => ServerEventsAt(i) = <<>>
           /\ out.client # <<>> => ClientEventsAt(i) = <<>>

(***************************************************************************)
(* The bootstrap engine (SpecBootstrap).                                   *)
(***************************************************************************)
\* The entries of the server's topMistakes, all of which the bootstrap made.
BootEvents ==
    IF out.server = <<>> THEN <<>> ELSE out.server[1].summary.topMistakes

\* The game of the batch with the given id.
BatchGame(gid) == batch.games[CHOOSE j \in DOMAIN batch.games :
                                  batch.games[j].id = gid]

\* An evaluated game of the batch with the given opening has a label at the
\* position the game gid has after the ply.
LabelledIn(opening, gid, ply) ==
    \E j \in DOMAIN batch.games, l \in DOMAIN out.server[1].rawLabels :
        LET lbl == out.server[1].rawLabels[l]
            src == batch.games[j]
        IN  /\ lbl.gameId = src.id
            /\ OpeningName(src) = opening
            /\ lbl.ply \in DOMAIN computePositions(src)
            /\ ply \in DOMAIN computePositions(BatchGame(gid))
            /\ computePositions(src)[lbl.ply] = computePositions(BatchGame(gid))[ply]

\* C19: a bootstrapped event is given only to an unevaluated game of the
\* requested opening, and only for a position that an evaluated game of the
\* same opening name has a judgment for; a position judged only in a game
\* of another opening gives no bootstrapped event.
C19_BootstrapStaysInOpening ==
    \A k \in DOMAIN BootEvents :
        LET e == BootEvents[k]
            opening == OpeningName(BatchGame(e.gameId))
        IN  /\ e.bootstrapped
            /\ <<opening>> = <<batch.options.bootstrapOpening>>
            /\ ~IsEvaluated(BatchGame(e.gameId))
            /\ LabelledIn(opening, e.gameId, e.ply)

\* The summary of the same games without a bootstrap opening.
Unbootstrapped ==
    analyzeGames(batch.games, [batch.options EXCEPT !.bootstrapOpening = Undefined])

\* The number of bootstrapped events of the kinds K in the games of opening o.
BootCount(K, O) ==
    Cardinality({k \in DOMAIN BootEvents :
                    /\ BootEvents[k].kind[1] \in K
                    /\ OpeningName(BatchGame(BootEvents[k].gameId)) \in O})

\* C20: every event the bootstrap produces is marked bootstrapped, adds one
\* to the total of its kind and to the counts of its game's opening, and is
\* in topMistakes; topBlunders is what it is without the bootstrap and holds
\* no bootstrapped event.
C20_BootstrappedEventsAreCounted ==
    out.server # <<>> =>
        LET s == out.server[1].summary
            u == Unbootstrapped
        IN  /\ \A k \in DOMAIN BootEvents : BootEvents[k].bootstrapped
            /\ s.total.blunders = u.total.blunders + BootCount({"blunder"}, OpeningNames)
            /\ s.total.mistakes = u.total.mistakes + BootCount({"mistake"}, OpeningNames)
            /\ s.total.inaccuracies =
                   u.total.inaccuracies + BootCount({"inaccuracy"}, OpeningNames)
            /\ \A o \in OpeningNames :
                   /\ s.mistakesByOpening[o] = u.mistakesByOpening[o] + BootCount(Kinds, {o})
                   /\ s.blundersByOpening[o] =
                          u.blundersByOpening[o] + BootCount({"blunder"}, {o})
            /\ s.topBlunders = u.topBlunders
            /\ \A k \in DOMAIN s.topBlunders : ~s.topBlunders[k].bootstrapped

\* A run in which the bootstrap gave an unevaluated game a blunder, next to a
\* blunder observed in the evaluated game.
C20_Witness ==
    /\ out.server # <<>>
    /\ \E k \in DOMAIN BootEvents :
          /\ BootEvents[k].kind = <<"blunder">>
          /\ BootEvents[k].bootstrapped
          /\ BootEvents[k].centipawnLoss = <<300>>
    /\ out.server[1].summary.topBlunders # <<>>
    /\ out.server[1].summary.total.blunders = 2

(***************************************************************************)
(* The orchestrator (SpecBatch).                                           *)
(***************************************************************************)
\* C14: when the chunks are a split of the whole game list, the summary
\* merged from the workers' summaries of the chunks has the totals, the
\* counts per opening and the ordered topBlunders and topMistakes of
\* analyzeGames on the whole list with the options of the request.
C14_MergeEqualsDirectClassification ==
    (/\ out.status = "merged"
     /\ out.server # <<>>
     /\ WorkingSet(batch.games, batch.options) = batch.games) =>
        LET merged == out.merged[1]
            direct == out.server[1].summary
        IN  /\ merged.total = direct.total
            /\ merged.mistakesByOpening = direct.mistakesByOpening
            /\ merged.blundersByOpening = direct.blundersByOpening
            /\ merged.topBlunders = direct.topBlunders
            /\ merged.topMistakes = direct.topMistakes

\* The summaries of the workers, chunk by chunk.
ChunkSummaries ==
    [c \in DOMAIN workers |-> WorkerAnalyze(workers[c].games, batch.options)]

\* C15: the merged summary is the one of the chunks' summaries whatever the
\* order in which the workers replied, and merging the summaries in any
\* other order gives the same totals and counts per opening (and the same
\* entries in the top lists).
C15_MergeIgnoresCompletionOrder ==
    out.status = "merged" =>
        /\ out.merged[1] = MergedSummary(ChunkSummaries)
        /\ \A p \in Perms(Len(workers)) :
              LET m == MergedSummary([k \in DOMAIN workers |-> ChunkSummaries[p[k]]])
              IN  /\ m.total = out.merged[1].total
                  /\ m.mistakesByOpening = out.merged[1].mistakesByOpening
                  /\ m.blundersByOpening = out.merged[1].blundersByOpening
                  /\ SameBag(m.topBlunders, out.merged[1].topBlunders)
                  /\ SameBag(m.topMistakes, out.merged[1].topMistakes)

\* The second worker replied before the first, each with a blunder of the
\* same loss, and the results were merged.
C15_Witness ==
    /\ out.status = "merged"
    /\ Len(replies) >= 2
    /\ replies[1] = 2 /\ replies[2] = 1
    /\ Len(out.merged[1].topBlunders) >= 2
    /\ out.merged[1].topBlunders[1].centipawnLoss
          = out.merged[1].topBlunders[2].centipawnLoss
    /\ out.merged[1].topBlunders[1].gameId = "g1"

\* The events analyzeGames counted on the batch: its raw labels.
CountedEvents == IF out.server = <<>> THEN <<>> ELSE out.server[1].rawLabels

\* C21: with onlyForUsername set, every event analyzeGames counts is a move
\* of that user: an odd ply of a game the user plays as white or an even ply
\* of a game the user plays as black, and no move of another player.
C21_OnlyMovesOfTheUser ==
    batch.options.onlyForUsername # Undefined =>
        \A k \in DOMAIN CountedEvents :
            LET e == CountedEvents[k]
                game == BatchGame(e.gameId)
            IN  \/ e.ply % 2 = 1 /\ game.white = batch.options.onlyForUsername
                \/ e.ply % 2 = 0 /\ game.black = batch.options.onlyForUsername

\* The games of the request whose opening is the requested one.
GamesOfOpening ==
    SelectSeq(batch.games,
              LAMBDA g : Coalesce(g.opening, "Unknown") = batch.options.bootstrapOpening)

\* C26 as stated: with a bootstrap opening exactly one worker is dispatched,
\* with every game of that opening in its chunk.
C26_ExactlyOneWorker ==
    (out.status # "idle" /\ batch.options.bootstrapOpening # Undefined) =>
        /\ Len(workers) = 1
        /\ workers[1].games = GamesOfOpening

\* C26: with a bootstrap opening at most one worker is dispatched: one, with
\* every game of that opening in its chunk, in the order of the request,
\* when the request has such a game, and none when it has not.
C26_OneWorkerForTheOpening ==
    (out.status # "idle" /\ batch.options.bootstrapOpening # Undefined) =>
        IF GamesOfOpening = <<>> THEN workers = <<>>
        ELSE /\ Len(workers) = 1
             /\ workers[1].games = GamesOfOpening

\* C26 witness: two games of the opening on a machine with several CPUs are
\* given to one worker.
C26_Witness ==
    /\ out.status # "idle"
    /\ batch.options.bootstrapOpening # Undefined
    /\ batch.cpus > 1
    /\ Len(GamesOfOpening) = 2
    /\ Len(workers) = 1
    /\ Len(workers[1].games) = 2

\* C27: when the options name a bootstrap opening, the summary the
\* orchestrator returns holds every bootstrapped event that analyzeGames
\* produces on the games of that opening with the same options.
C27_WorkerBootstraps ==
    (out.status = "merged" /\ batch.options.bootstrapOpening # Undefined) =>
        LET direct == analyzeGames(GamesOfOpening, batch.options).topMistakes
            merged == out.merged[1].topMistakes
        IN  \A k \in DOMAIN direct :
               direct[k].bootstrapped => \E j \in DOMAIN merged : merged[j] = direct[k]

\* The user a worker detects for its chunk when the options name none.
ChunkTarget(c) == deriveUsernameFromGames(workers[c].games)

\* C40: when options.onlyForUsername is absent, every worker of the batch
\* classifies with the same auto-detected target user, so the merged summary
\* is the one the undivided list gives as a single chunk.
C40_OneTargetForAllChunks ==
    (out.status = "merged" /\ OrEmpty(batch.options.onlyForUsername) = "") =>
        /\ \A c, d \in DOMAIN workers : ChunkTarget(c) = ChunkTarget(d)
        /\ out.merged[1] =
               MergedSummary(<<WorkerAnalyze(WorkingSet(batch.games, batch.options),
                                             batch.options)>>)

(***************************************************************************)
(* The chunks (SpecSplit).                                                 *)
(***************************************************************************)
\* The games of the chunks from chunk c on, in order.
RECURSIVE ChunksFrom(_)
ChunksFrom(c) ==
    IF c > Len(workers) THEN <<>> ELSE workers[c].games \o ChunksFrom(c + 1)

\* C25: without a bootstrap opening the chunks are contiguous pieces of the
\* game list, in order, their sizes differ by at most one, and a list of at
\* least min(CPU count, 8) games is given to exactly that many workers, the
\* worker count of the response.
C25_SplitsIntoNearEqualChunks ==
    (out.status # "idle" /\ batch.options.bootstrapOpening = Undefined) =>
        LET n == IF batch.cpus < 8 THEN batch.cpus ELSE 8
        IN  /\ ChunksFrom(1) = batch.games
            /\ \A c \in DOMAIN workers, d \in DOMAIN workers :
                  Len(workers[c].games) <= Len(workers[d].games) + 1
            /\ Len(batch.games) >= n => Len(workers) = n

(***************************************************************************)
(* Games with judgments (SpecJudged).                                      *)
(***************************************************************************)
\* The moves of the game that carry one of the three labels and are not left
\* out by the target-side filter, and those of them of one kind.
Labelled ==
    {i \in DOMAIN TheGame.analysis :
        /\ Curr(i).judgment # <<>>
        /\ Curr(i).judgment[1].name \in Kinds
        /\ ~Filtered(i)}

LabelledAs(kind) == {i \in Labelled : Curr(i).judgment[1].name = kind}

\* The event of a labelled move: its kind and the centipawn loss of the label.
LabelEvent(i) ==
    [kind |-> Curr(i).judgment[1].name, loss |-> Curr(i).judgment[1].cp]

\* The totals count the labelled moves once each and nothing else.
TotalsAreTheLabels(summary) ==
    /\ summary.total.inaccuracies = Cardinality(LabelledAs("inaccuracy"))
    /\ summary.total.mistakes = Cardinality(LabelledAs("mistake"))
    /\ summary.total.blunders = Cardinality(LabelledAs("blunder"))
    /\ summary.mistakesByOpening["X"] = Cardinality(Labelled)
    /\ summary.blundersByOpening["X"] = Cardinality(LabelledAs("blunder"))

\* C29: in a game of which a move carries a judgment, either classifier
\* yields for each move labelled inaccuracy, mistake or blunder (and made by
\* the side of the target user, when there is one) exactly one event, of that
\* kind and with the centipawn loss of the label, and for every other move
\* none: the evaluations of the game are not used, and the totals count each
\* labelled move once.
C29_LabelsAreTrusted ==
    (\E i \in DOMAIN TheGame.analysis : Curr(i).judgment # <<>>) =>
        /\ out.server # <<>> =>
              /\ \A i \in DOMAIN TheGame.analysis :
                    /\ ServerEventsAt(i) =
                          IF i \in Labelled THEN <<LabelEvent(i)>> ELSE <<>>
                    /\ TopBlundersAt(out.server[1], i) =
                          IF i \in LabelledAs("blunder")
                          THEN <<LabelEvent(i).loss>> ELSE <<>>
              /\ TotalsAreTheLabels(out.server[1].summary)
        /\ out.client # <<>> =>
              /\ \A i \in DOMAIN TheGame.analysis :
                    /\ ClientEventsAt(i) =
                          IF i \in Labelled THEN <<LabelEvent(i)>> ELSE <<>>
                    /\ TopBlundersAt(out.client[1], i) =
                          IF i \in LabelledAs("blunder")
                          THEN <<LabelEvent(i).loss>> ELSE <<>>
              /\ TotalsAreTheLabels(out.client[1].summary)

\* C29 witness: both classifiers ran on a game whose evaluation swings by 300
\* at ply 2, which carries no label, and whose ply 3 is labelled a mistake of
\* 120: the only event is the mistake of ply 3.
C29_Witness ==
    /\ out.server # <<>> /\ out.client # <<>>
    /\ batch.options.onlyForUsername = Undefined
    /\ Len(TheGame.analysis) = 3
    /\ Curr(1).cp = <<0>> /\ Curr(2).cp = <<300>> /\ Curr(3).cp = <<300>>
    /\ Curr(1).judgment = <<>> /\ Curr(2).judgment = <<>>
    /\ Curr(3).judgment = <<[name |-> "mistake", cp |-> <<120>>]>>
    /\ ServerEventsAt(2) = <<>> /\ ClientEventsAt(2) = <<>>
    /\ ClientEventsAt(3) = <<[kind |-> "mistake", loss |-> <<120>>]>>
    /\ out.server[1].summary.total.mistakes = 1

(***************************************************************************)
(* The ranked lists (SpecRanked).                                          *)
(***************************************************************************)
\* The place of a game in the request.
GameIndex(gid) == CHOOSE i \in DOMAIN batch.games : batch.games[i].id = gid

\* Event e is emitted before event f: the games are gone through in the order
\* of the request and the plies of a game in ascending order.
EmittedBefore(e, f) ==
    \/ GameIndex(e.gameId) < GameIndex(f.gameId)
    \/ e.gameId = f.gameId /\ e.ply < f.ply

\* The list is in descending order of centipawnLoss ?? 0, events of equal
\* loss in the order of their emission.
Ranked(events) ==
    \A i, j \in DOMAIN events :
        i < j =>
            \/ Opt0(events[i].centipawnLoss) > Opt0(events[j].centipawnLoss)
            \/ /\ Opt0(events[i].centipawnLoss) = Opt0(events[j].centipawnLoss)
               /\ EmittedBefore(events[i], events[j])

\* C30: topBlunders and topMistakes of the summary of analyzeGames and of the
\* merged summary of the orchestrator are in descending order of centipawn
\* loss (a missing loss counting as 0), events of equal loss in the order in
\* which they were emitted.
C30_TopListsAreRanked ==
    /\ out.server # <<>> =>
          /\ Ranked(out.server[1].summary.topBlunders)
          /\ Ranked(out.server[1].summary.topMistakes)
    /\ out.status = "merged" =>
          /\ Ranked(out.merged[1].topBlunders)
          /\ Ranked(out.merged[1].topMistakes)

\* C30 witness: two workers replied and the merged topBlunders holds the
\* blunder of the second game in front of the smaller one of the first game;
\* analyzeGames, on the same games, ranked a later blunder of the first game
\* in front of its first one and, behind it, one of equal loss of the second
\* game.
C30_Witness ==
    /\ out.status = "merged"
    /\ Len(workers) = 2
    /\ out.server # <<>>
    /\ \E i, j \in DOMAIN out.merged[1].topBlunders :
          LET e == out.merged[1].topBlunders[i]
              f == out.merged[1].topBlunders[j]
          IN  /\ i < j
              /\ e.gameId = "g2" /\ f.gameId = "g1"
              /\ Opt0(e.centipawnLoss) > Opt0(f.centipawnLoss)
    /\ \E i, j, k \in DOMAIN out.server[1].summary.topBlunders :
          LET e == out.server[1].summary.topBlunders[i]
              f == out.server[1].summary.topBlunders[j]
              g == out.server[1].summary.topBlunders[k]
          IN  /\ i < j /\ j < k
              /\ e.gameId = "g1" /\ f.gameId = "g2" /\ g.gameId = "g1"
              /\ e.centipawnLoss = f.centipawnLoss
              /\ e.ply > g.ply

(***************************************************************************)
(* The bootstrap index and its positions (SpecPositions).                  *)
(***************************************************************************)
\* fenIndex of the run, and the aggregates it holds for the position the game
\* gid has after the ply.
TheIndex ==
    BuildIndex(<<>>, batch.games, out.server[1].rawLabels,
               OrEmpty(batch.options.bootstrapOpening), 1)

AggregatesAt(gid, ply) ==
    {i \in DOMAIN TheIndex :
        /\ ply \in DOMAIN computePositions(BatchGame(gid))
        /\ TheIndex[i].fen = computePositions(BatchGame(gid))[ply]}

\* C31: a bootstrapped event at ply p of a game comes from an aggregate of
\* the position after p whose recorded ply has the parity of p; where the
\* aggregate of the position has a ply of the other parity there is no event.
C31_MatchNeedsSameParity ==
    out.server # <<>> =>
        /\ \A k \in DOMAIN BootEvents :
              LET e == BootEvents[k]
              IN  \E i \in AggregatesAt(e.gameId, e.ply) :
                     TheIndex[i].ply % 2 = e.ply % 2
        /\ \A j \in DOMAIN batch.games, p \in 1..MaxMoves :
              (\E i \in AggregatesAt(batch.games[j].id, p) :
                   TheIndex[i].ply % 2 # p % 2)
              => ~\E k \in DOMAIN BootEvents :
                     /\ BootEvents[k].gameId = batch.games[j].id
                     /\ BootEvents[k].ply = p

\* C31 witness: the label of the first game states ply 0 and is indexed under
\* the position at the end of its one-ply move text; the unevaluated second
\* game has that position after ply 1, a move of the other side, and gets no
\* event.
C31_Witness ==
    /\ out.server # <<>>
    /\ ~IsEvaluated(batch.games[2])
    /\ \E i \in AggregatesAt("g2", 1) : TheIndex[i].ply = 0
    /\ BootEvents = <<>>

\* The position a label is indexed under (<<>>: none), as fenIndex looks it
\* up: the position after the ply of the label in the game of the label.
LabelFen(lbl) ==
    LET pos == PositionsByGame(batch.games, out.server[1].rawLabels,
                               OrEmpty(batch.options.bootstrapOpening), lbl.gameId)
    IN  IF pos = <<>> \/ lbl.ply \notin 0..Len(pos) THEN <<>>
        ELSE IF lbl.ply = 0 THEN <<pos[Len(pos)]>>
        ELSE <<pos[lbl.ply]>>

\* The labels of the run that map to the position.
MappedTo(fen) ==
    {l \in DOMAIN out.server[1].rawLabels :
        LabelFen(out.server[1].rawLabels[l]) = <<fen>>}

\* Label a is at least as severe as label b: a higher kind, or the same kind
\* and no smaller centipawn loss.
AtLeastAsSevere(a, b) ==
    \/ SeverityRank(a.kind) > SeverityRank(b.kind)
    \/ /\ SeverityRank(a.kind) = SeverityRank(b.kind)
       /\ Opt0(a.cp) >= Opt0(b.cp)

\* The frequency of an aggregate is the number of labels of its position.
FrequencyCountsLabels ==
    (out.server # <<>> /\ batch.options.bootstrapOpening # Undefined) =>
        \A i \in DOMAIN TheIndex :
            TheIndex[i].frequency = Cardinality(MappedTo(TheIndex[i].fen))

\* C32: the aggregate of a position of the index is the most severe of the
\* labels that map to the position (by kind, then by centipawn loss): kind,
\* ply, move number, opening and centipawn loss are those of that one label,
\* and the frequency is the number of labels of the position.
C32_AggregateIsTheMostSevereLabel ==
    (out.server # <<>> /\ batch.options.bootstrapOpening # Undefined) =>
        \A i \in DOMAIN TheIndex :
            LET agg == TheIndex[i]
                labels == out.server[1].rawLabels
            IN  /\ agg.frequency = Cardinality(MappedTo(agg.fen))
                /\ \E l \in MappedTo(agg.fen) :
                      /\ \A m \in MappedTo(agg.fen) :
                            AtLeastAsSevere(labels[l], labels[m])
                      /\ agg.kind = labels[l].kind
                      /\ agg.ply = labels[l].ply
                      /\ agg.moveNumber = labels[l].moveNumber
                      /\ agg.opening = labels[l].opening
                      /\ agg.cp = labels[l].cp

\* C33: positions are matched by piece placement and side to move alone: an
\* unevaluated game of the requested opening gets a bootstrapped event at
\* every ply after which its position has the piece placement and the side
\* to move of the position of a label of a ply of the same side, whatever
\* the en-passant target and the move counter of the two positions.
C33_MatchByPlacementAndSide ==
    out.server # <<>> =>
        \A j \in DOMAIN batch.games, l \in DOMAIN out.server[1].rawLabels :
            LET game == batch.games[j]
                pos == computePositions(game)
                lbl == out.server[1].rawLabels[l]
            IN  \A p \in DOMAIN pos :
                   (/\ ~IsEvaluated(game)
                    /\ <<OpeningName(game)>> = <<batch.options.bootstrapOpening>>
                    /\ LabelFen(lbl) # <<>>
                    /\ LabelFen(lbl)[1].placement = pos[p].placement
                    /\ LabelFen(lbl)[1].turn = pos[p].turn
                    /\ lbl.ply % 2 = p % 2)
                   => \E k \in DOMAIN BootEvents :
                         /\ BootEvents[k].gameId = game.id
                         /\ BootEvents[k].ply = p

\* C34: a bootstrapped event belongs to a game none of whose moves has a
\* judgment or a centipawn score; a game with a judgment or a centipawn score
\* gets none, whatever its positions.
C34_OnlyUnevaluatedGamesAreBootstrapped ==
    \A k \in DOMAIN BootEvents :
        LET game == BatchGame(BootEvents[k].gameId)
        IN  /\ BootEvents[k].bootstrapped
            /\ \A i \in DOMAIN game.analysis :
                  game.analysis[i].judgment = <<>> /\ game.analysis[i].cp = <<>>

\* C34 witness: the second game, whose move has a mate distance only, gets
\* an event for the position it shares with the labelled first game; the
\* first game, which has the same position, gets none.
C34_Witness ==
    /\ out.server # <<>>
    /\ batch.games[2].analysis[1].mate # <<>>
    /\ batch.games[1].pgn = batch.games[2].pgn
    /\ Len(BootEvents) = 1
    /\ BootEvents[1].gameId = "g2"
    /\ AggregatesAt("g1", BootEvents[1].ply) # {}

(***************************************************************************)
(* Move text that does not load (SpecDetails).                             *)
(***************************************************************************)
\* The move text of the game cannot be parsed or cannot be replayed.
Malformed(game) == \E p \in DOMAIN game.pgn : game.pgn[p] \in {"?", "!"}

\* The entries of a list that belong to other games than gid.
OfOthers(list, gid) == SelectSeq(list, LAMBDA e : e.gameId # gid)

OfGame(list, gid) == SelectSeq(list, LAMBDA e : e.gameId = gid)

\* C35: with a first game whose move text cannot be parsed or replayed,
\* analyzeGames with the bootstrap returns, and the events of the other game
\* are those of a run without the first game; prepareMistakeDetails returns
\* one item, with a FEN, for each requested mistake of the first game, in
\* the order of the requests, and the items of the other game are those of a
\* run without the first game.
C35_MalformedGameIsContained ==
    Malformed(batch.games[1]) =>
        /\ out.server # <<>> =>
              LET full == out.server[1].summary
                  alone == analyzeGames(Tail(batch.games), batch.options)
              IN  /\ OfOthers(full.topBlunders, "g1") = alone.topBlunders
                  /\ OfOthers(full.topMistakes, "g1") = alone.topMistakes
        /\ out.details # <<>> =>
              LET items == out.details[1].items
                  asked == out.details[1].mistakes
                  mine == OfGame(items, "g1")
              IN  /\ Len(mine) = Len(OfGame(asked, "g1"))
                  /\ \A k \in DOMAIN mine :
                        /\ mine[k].moveNumber = OfGame(asked, "g1")[k].moveNumber
                        /\ mine[k].kind = OfGame(asked, "g1")[k].kind
                        /\ mine[k].fen.placement \in {"start", "s", "t"}
                  /\ OfOthers(items, "g1") =
                        prepareMistakeDetails(Tail(batch.games), asked)

\* C35 witness: the move text of the first game does not parse; analyzeGames
\* returned, and prepareMistakeDetails gave the mistake of the first game the
\* starting position and the mistake of the second game its position after
\* ply 2.
C35_Witness ==
    /\ out.server # <<>> /\ out.details # <<>>
    /\ batch.games[1].pgn = <<"s", "?">>
    /\ Len(out.details[1].items) = 2
    /\ out.details[1].items[1].gameId = "g1"
    /\ out.details[1].items[1].fen = StartFen
    /\ out.details[1].items[2].gameId = "g2"
    /\ out.details[1].items[2].fen = Fen("t", 2)

(***************************************************************************)
(* The counts of a summary (SpecBootBatch).                                *)
(***************************************************************************)
\* The sum of the counts per opening.
SumByOpening(counts) == counts["Unknown"] + counts["X"] + counts["Y"]

\* The bootstrapped blunders among the entries of topMistakes.
BootstrappedBlunders(summary) ==
    Cardinality({k \in DOMAIN summary.topMistakes :
                    /\ summary.topMistakes[k].bootstrapped
                    /\ summary.topMistakes[k].kind = <<"blunder">>})

\* total.blunders is the sum of blundersByOpening, the three totals add up to
\* the sum of mistakesByOpening, and topBlunders has one entry for each
\* blunder counted that is not bootstrapped.
CountsAgree(summary) ==
    /\ summary.total.blunders = SumByOpening(summary.blundersByOpening)
    /\ summary.total.inaccuracies + summary.total.mistakes + summary.total.blunders
          = SumByOpening(summary.mistakesByOpening)
    /\ summary.total.blunders - BootstrappedBlunders(summary)
          = Len(summary.topBlunders)

\* C36: the counts of the summary of analyzeGames and of the merged summary
\* of the orchestrator agree with each other and with topBlunders.
C36_CountsAgree ==
    /\ out.server # <<>> => CountsAgree(out.server[1].summary)
    /\ out.status = "merged" => CountsAgree(out.merged[1])

\* C36 witness: analyzeGames counted the labelled blunder of one game and a
\* bootstrapped blunder of the other, with one entry in topBlunders, and the
\* orchestrator merged the results of its workers with a blunder counted.
C36_Witness ==
    /\ out.server # <<>>
    /\ out.server[1].summary.total.blunders = 2
    /\ BootstrappedBlunders(out.server[1].summary) = 1
    /\ Len(out.server[1].summary.topBlunders) = 1
    /\ out.status = "merged"
    /\ out.merged[1].total.blunders = 1

====
